---- MODULE Spec2Model ----
(***************************************************************************)
(* qbserver: the resilient OAuth token store (FallbackTokenStore over      *)
(* RedisTokenStore), the auth Service that drives it, and the Redis        *)
(* HealthChecker with its circuit breaker.                                 *)
(*                                                                         *)
(* Request goroutines are the threads of the model.  A thread runs one     *)
(* operation at a time; an operation is a sequence of steps, one step per  *)
(* access to shared state (the cache map under its mutex, one Redis call,  *)
(* one upstream HTTP call), so every interleaving the Go scheduler allows  *)
(* between those accesses is a behaviour of the model.                     *)
(***************************************************************************)
EXTENDS Integers, FiniteSets, Sequences, TLC

(* ------------------------------ bounds -------------------------------- *)
NumThreads == 2
NumUsers == 1
NumOthers == 1
NumRecs == 2
NumAuthThreads == 1
MaxGrants == 2
MaxClock == 300
MaxProbeTime == 200
MaxJitter == 1
MaxProbes == 3
MaxStates == 2
MaxInFlight == 2

Threads == 1..NumThreads
\* The request goroutines that run Service operations in SpecAuth.
AuthThreads == 1..NumAuthThreads
Users == 1..NumUsers
\* Users whose records the store may hold but for whom no request arrives.
Others == (NumUsers + 1)..(NumUsers + NumOthers)
\* The keys of localCache and of Redis.
Keys == Users \cup Others

(* -------------------------- program constants ------------------------- *)
\* 5*time.Minute in GetValidToken, in seconds
RefreshMargin == 300
\* 30*time.Second passed to NewHealthChecker
CheckInterval == 30
\* gobreaker Settings.Timeout
BreakerTimeout == 30
\* ReadyToTrip: ConsecutiveFailures >= 3
TripThreshold == 3
\* context.WithTimeout(..., 2*time.Second) around each probe
ProbeDeadline == 2
\* 10*time.Minute added to the clock in ConnectHandler, in seconds
StateTTL == 600

(* ------------------------------ records ------------------------------- *)
\* OAuthToken.  Token strings are numbered: 0 is the empty string, n > 0 the
\* token the upstream minted in its n-th grant.  NoToken is the nil pointer.
OAuthToken(a, r, e, realm) ==
    [access |-> a, refresh |-> r, expiresAt |-> e, realm |-> realm]

NoToken == OAuthToken(0, 0, 0, "nil")

\* The upstream's JSON token response before ExpiresAt is computed.
NoResp == [access |-> 0, refresh |-> 0, expiresIn |-> 0, realm |-> ""]

\* The records a direct caller of the store hands to SaveToken.
SampleToken(n) == OAuthToken(n, n, 2 * RefreshMargin, "r1")

\* expires_in values the upstream answers with (a response without the field
\* decodes to 0), realm_id values the JSON of a token response may carry
\* (none, or one), and the realmId query parameter of the authorization
\* callback.
ExpiresInValues == {0, RefreshMargin}
ResponseRealms == {"", "r2"}
CallbackRealms == {"", "r1"}

VARIABLES
    now,        \* wall clock, seconds
    redisUp,    \* the Redis server answers
    status,     \* HealthChecker.status, read by healthCheck()
    cb,         \* the gobreaker circuit breaker
    hc,         \* the periodic health-check goroutine
    cache,      \* FallbackTokenStore.localCache
    cacheRef,   \* the thread whose in-hand *OAuthToken a cache entry points to
    durable,    \* the Redis keys {prefix}:token:{userID}
    th,         \* request goroutines; calls lists the upstream HTTP calls of the
                \* operation in progress, in order, each with its outcome
    repl,       \* the replication goroutine
    pending,    \* history: the record of the last save of a user that reached the cache only
    quiet,      \* history: that save returned with Redis down, and since then Redis
                \* stayed down and no save, delete or cache refresh touched the user
    issued,     \* number of grants the upstream has made
    lk,         \* the two RWMutexes (FallbackTokenStore.cacheMutex and
                \* HealthChecker.mu) and where the replication and health check
                \* goroutines stand, for the specification that steps lock by lock;
                \* cancelled: main's application context is cancelled
    hist        \* history, per user.  latest: the record of a save that reached
                \* the cache and Redis with no other call on the user under way,
                \* kept while Redis stays up, the flag stays trusted and no
                \* further save or delete of the user is issued.  saved: the
                \* record of a save that returned with no other call on the
                \* user under way from its cache write on, gone: a delete
                \* returned so; both kept until the next save or delete of the
                \* user reaches the cache.  by: the thread whose save or delete
                \* has run so since its cache write
VARIABLE
    web         \* the browser and the requests to the auth handlers.  jar: the
                \* "qb-auth-session" cookie the browser holds; wire: the
                \* callback requests sent and not yet served, each with the
                \* cookie the browser held when it sent it; req[t]: the
                \* session decoded from the cookie of the request goroutine t
                \* serves; param[t]: the state query parameter of that request;
                \* set[t]: the response of t carries a Set-Cookie; minted: the
                \* number of states generateState has made.  used is history:
                \* the states for which a callback went on to the exchange

vars == <<now, redisUp, status, cb, hc, cache, cacheRef, durable, th, repl, pending, quiet, issued, hist, lk, web>>

healthVars == <<status, cb, hc>>
storeVars == <<cache, cacheRef, durable, pending, quiet, hist>>

Idle ==
    [op |-> "idle", pc |-> "idle", ret |-> "", usr |-> 0, tok |-> NoToken,
     old |-> NoToken, resp |-> NoResp, arg |-> "", err |-> "", dur |-> FALSE,
     calls |-> <<>>]

ReplIdle ==
    [active |-> FALSE, todo |-> [u \in Keys |-> NoToken],
     ref |-> [u \in Keys |-> 0], ok |-> TRUE, owed |-> {}]

\* gobreaker.NewCircuitBreaker: closed, counts cleared, no expiry (Interval 0).
BreakerClosed == [state |-> "closed", fails |-> 0, requests |-> 0, expiry |-> 0]

\* A checker whose first probe runs at construction.
CheckerStart_probesAtOnce ==
    [pc |-> "wait", next |-> 0, began |-> 0, streak |-> 0, tripAt |-> -1,
     last |-> "none"]

\* startPeriodicChecks before its first tick.  streak and tripAt are history:
\* the number of pings that failed in a row, and the time of the latest
\* failed ping that made or left the streak at least the trip threshold
\* (-1 before the first); last is the outcome of the latest ping that returned.
CheckerStart ==
    [pc |-> "wait", next |-> CheckInterval, began |-> 0, streak |-> 0, tripAt |-> -1,
     last |-> "none"]

\* Nothing to remember about a user.
NoHistory == [latest |-> NoToken, saved |-> NoToken, gone |-> FALSE, by |-> 0]

\* An unlocked sync.RWMutex: no writer (0), no readers.
Unlocked == [writer |-> 0, readers |-> {}]

\* A session with no values: what CookieStore yields for a request without a
\* cookie, and what is left once qb_state and qb_state_expiry are deleted.
\* State strings are numbered: 0 is no value, n > 0 the n-th generated state.
NoSession == [state |-> 0, expiry |-> 0]

NoRequests ==
    [jar |-> NoSession, wire |-> <<>>, req |-> [t \in Threads |-> NoSession],
     param |-> [t \in Threads |-> 0], set |-> [t \in Threads |-> FALSE],
     minted |-> 0, used |-> {}]

LocksFree ==
    [cacheMutex |-> Unlocked, mu |-> Unlocked, repl |-> "idle", check |-> "idle",
     result |-> FALSE, cancelled |-> FALSE]

Init ==
    /\ now = 0
    /\ redisUp \in BOOLEAN
    /\ status = FALSE
    /\ cb = BreakerClosed
    /\ hc = CheckerStart
    /\ cache = [u \in Keys |-> NoToken]
    /\ cacheRef = [u \in Keys |-> 0]
    /\ durable = [u \in Keys |-> NoToken]
    /\ th = [t \in Threads |-> Idle]
    /\ repl = ReplIdle
    /\ pending = [u \in Keys |-> NoToken]
    /\ quiet = [u \in Keys |-> FALSE]
    /\ issued = 0
    /\ hist = [u \in Keys |-> NoHistory]
    /\ lk = LocksFree
    /\ web = NoRequests

(* ------------------------ RedisTokenStore ----------------------------- *)
\* Each returns the outcome of one Redis command against the keys d.
RedisSaveToken(d, up, u, tok) ==
    IF up THEN [err |-> "", keys |-> [d EXCEPT ![u] = tok]]
    ELSE [err |-> "unavailable", keys |-> d]

RedisGetToken(d, up, u) ==
    IF ~up THEN [err |-> "unavailable", tok |-> NoToken]
    ELSE IF d[u] = NoToken THEN [err |-> "notfound", tok |-> NoToken]
    ELSE [err |-> "", tok |-> d[u]]

RedisDeleteToken(d, up, u) ==
    IF up THEN [err |-> "", keys |-> [d EXCEPT ![u] = NoToken]]
    ELSE [err |-> "unavailable", keys |-> d]

\* healthCheck(): HealthChecker.IsHealthy, a read of the flag.
IsHealthy == status

(* ------------------------ FallbackTokenStore -------------------------- *)
\* A store call returns to its caller: pc moves to the continuation.
Returned(t, tok, err) ==
    [th EXCEPT ![t].pc = th[t].ret, ![t].ret = "", ![t].tok = tok, ![t].err = err]

\* No other request goroutine is inside an operation on user u.
Alone(t, u) ==
    \A o \in Threads \ {t} : th[o].usr = u => th[o].pc \in {"idle", "done"}

\* The history once the calls on user u, or on every user, are no longer
\* the latest thing that happened under a trusted, reachable Redis.
Forget(h, u) == [h EXCEPT ![u] = NoHistory]

\* The history when thread t's save or delete of user u reaches the cache.
Begun(h, t, u) == [h EXCEPT ![u] = [NoHistory EXCEPT !.by = IF Alone(t, u) THEN t ELSE 0]]
ForgetAll(h) == [u \in Keys |-> [h[u] EXCEPT !.latest = NoToken]]

\* SaveToken, lines 34-36: the cache write under the write lock.
SaveToken_cache(t) ==
    /\ th[t].pc = "save_cache"
    /\ cache' = [cache EXCEPT ![th[t].usr] = th[t].tok]
    /\ cacheRef' = [cacheRef EXCEPT ![th[t].usr] = IF th[t].op = "callback" THEN t ELSE 0]
    /\ pending' = [pending EXCEPT ![th[t].usr] = NoToken]
    /\ quiet' = [quiet EXCEPT ![th[t].usr] = FALSE]
    /\ hist' = Begun(hist, t, th[t].usr)
    /\ th' = [th EXCEPT ![t].pc = "save_redis", ![t].dur = FALSE]
    /\ UNCHANGED <<web, lk, now, redisUp, healthVars, durable, repl, issued>>

\* A store that writes to Redis whatever the health flag says.
WritesThrough_always(healthy) == TRUE

\* Whether SaveToken and DeleteToken go on to Redis: line 39, line 85.
WritesThrough(healthy) == healthy

\* SaveToken's error: every path ends in "return nil" (line 46).
SaveTokenError(redisErr) == ""

\* SaveToken, lines 39-46: the Redis write when healthy, its error only logged.
SaveToken_redis(t) ==
    /\ th[t].pc = "save_redis"
    /\ LET u == th[t].usr
           try == WritesThrough(IsHealthy)
           out == IF try THEN RedisSaveToken(durable, redisUp, u, th[t].tok)
                  ELSE [err |-> "skipped", keys |-> durable]
       IN /\ durable' = out.keys
          /\ pending' = [pending EXCEPT ![u] =
                            IF out.err = "" THEN NoToken
                            ELSE IF cache[u] = th[t].tok /\ Alone(t, u) THEN th[t].tok
                            ELSE @]
          /\ quiet' = [quiet EXCEPT ![u] = ~redisUp /\ cache[u] = th[t].tok /\ Alone(t, u)]
          /\ repl' = [repl EXCEPT !.owed = @ \ {u}]
          /\ hist' = [hist EXCEPT ![u].latest =
                          IF out.err = "" /\ cache[u] = th[t].tok /\ Alone(t, u)
                          THEN th[t].tok ELSE NoToken,
                                  ![u].saved =
                          IF hist[u].by = t /\ cache[u] = th[t].tok /\ Alone(t, u)
                          THEN th[t].tok ELSE NoToken,
                                  ![u].by = 0]
          /\ th' = [Returned(t, th[t].tok, SaveTokenError(out.err)) EXCEPT ![t].dur = try]
    /\ UNCHANGED <<web, lk, now, redisUp, healthVars, cache, cacheRef, issued>>

\* A GetToken that returns the Redis error instead of falling back.
AfterDurableRead_surface(healthy, redisErr) ==
    IF healthy /\ redisErr = "" THEN "get_update"
    ELSE IF healthy THEN "get_fail" ELSE "get_cache"

\* Where GetToken goes after its Redis read: lines 52-63.
AfterDurableRead(healthy, redisErr) ==
    IF healthy /\ redisErr = "" THEN "get_update" ELSE "get_cache"

\* GetToken, lines 52-54 and 62: the Redis read when healthy.
GetToken_redis(t) ==
    /\ th[t].pc = "get_redis"
    /\ LET out == IF IsHealthy THEN RedisGetToken(durable, redisUp, th[t].usr)
                  ELSE [err |-> "skipped", tok |-> NoToken]
       IN th' = [th EXCEPT ![t].pc = AfterDurableRead(IsHealthy, out.err),
                           ![t].tok = out.tok, ![t].dur = IsHealthy]
    /\ UNCHANGED <<web, lk, now, redisUp, healthVars, storeVars, repl, issued>>

\* A GetToken that returns the Redis record and leaves the cache alone.
GetToken_update_keepsCache(t) ==
    /\ th[t].pc = "get_update"
    /\ th' = Returned(t, th[t].tok, "")
    /\ UNCHANGED <<web, lk, now, redisUp, healthVars, storeVars, repl, issued>>

\* GetToken, lines 56-59: the Redis record replaces the cache entry.
GetToken_update(t) ==
    /\ th[t].pc = "get_update"
    /\ cache' = [cache EXCEPT ![th[t].usr] = th[t].tok]
    /\ cacheRef' = [cacheRef EXCEPT ![th[t].usr] = 0]
    /\ quiet' = [quiet EXCEPT ![th[t].usr] = FALSE]
    /\ th' = Returned(t, th[t].tok, "")
    /\ UNCHANGED <<web, lk, now, redisUp, healthVars, durable, pending, repl, issued, hist>>

\* GetToken's result from the cache: lines 66-74.
CacheLookup(c, u) ==
    IF c[u] # NoToken THEN [err |-> "", tok |-> c[u]]
    ELSE [err |-> "notfound", tok |-> NoToken]

\* GetToken, lines 66-74: the fallback read under the read lock.
GetToken_cache(t) ==
    /\ th[t].pc = "get_cache"
    /\ LET out == CacheLookup(cache, th[t].usr)
       IN th' = Returned(t, out.tok, out.err)
    /\ UNCHANGED <<web, lk, now, redisUp, healthVars, storeVars, repl, issued>>

\* A DeleteToken that drops the cache entry only when Redis is trusted.
DeleteToken_cache_whenHealthy(t) ==
    /\ th[t].pc = "delete_cache"
    /\ cache' = [cache EXCEPT ![th[t].usr] = IF IsHealthy THEN NoToken ELSE @]
    /\ cacheRef' = [cacheRef EXCEPT ![th[t].usr] = 0]
    /\ pending' = [pending EXCEPT ![th[t].usr] = NoToken]
    /\ quiet' = [quiet EXCEPT ![th[t].usr] = FALSE]
    /\ repl' = [repl EXCEPT !.owed = @ \ {th[t].usr}]
    /\ hist' = Forget(hist, th[t].usr)
    /\ th' = [th EXCEPT ![t].pc = "delete_redis", ![t].dur = FALSE]
    /\ UNCHANGED <<web, lk, now, redisUp, healthVars, durable, issued>>

\* DeleteToken, lines 80-82.
DeleteToken_cache(t) ==
    /\ th[t].pc = "delete_cache"
    /\ cache' = [cache EXCEPT ![th[t].usr] = NoToken]
    /\ cacheRef' = [cacheRef EXCEPT ![th[t].usr] = 0]
    /\ pending' = [pending EXCEPT ![th[t].usr] = NoToken]
    /\ quiet' = [quiet EXCEPT ![th[t].usr] = FALSE]
    /\ repl' = [repl EXCEPT !.owed = @ \ {th[t].usr}]
    /\ hist' = Begun(hist, t, th[t].usr)
    /\ th' = [th EXCEPT ![t].pc = "delete_redis", ![t].dur = FALSE]
    /\ UNCHANGED <<web, lk, now, redisUp, healthVars, durable, issued>>

\* DeleteToken, lines 85-92.
DeleteToken_redis(t) ==
    /\ th[t].pc = "delete_redis"
    /\ LET try == WritesThrough(IsHealthy)
           out == IF try THEN RedisDeleteToken(durable, redisUp, th[t].usr)
                  ELSE [err |-> "skipped", keys |-> durable]
       IN /\ durable' = out.keys
          /\ hist' = [hist EXCEPT ![th[t].usr].gone =
                          /\ hist[th[t].usr].by = t
                          /\ cache[th[t].usr] = NoToken
                          /\ Alone(t, th[t].usr),
                                  ![th[t].usr].by = 0]
          /\ th' = [Returned(t, NoToken, "") EXCEPT ![t].dur = try]
    /\ UNCHANGED <<web, lk, now, redisUp, healthVars, cache, cacheRef, pending, quiet, repl, issued>>

\* The record a goroutine reads through a pointer it shares with thread r.
Deref(r, tok) == IF r # 0 THEN th[r].tok ELSE tok

\* StartReplicationRoutine, lines 105-116: a tick of the 5-minute ticker.
Replicate_tick ==
    /\ ~repl.active
    /\ IF ~IsHealthy
       THEN UNCHANGED repl
       ELSE repl' = [active |-> TRUE, todo |-> cache, ref |-> cacheRef, ok |-> TRUE,
                     owed |-> {u \in Keys : pending[u] # NoToken}]
    /\ UNCHANGED <<web, lk, now, redisUp, healthVars, storeVars, th, issued>>

\* A pass that gives up at the first entry whose save fails.
Replicate_push_stopsAtError(u) ==
    /\ repl.active
    /\ repl.ok
    /\ repl.todo[u] # NoToken
    /\ LET tok == Deref(repl.ref[u], repl.todo[u])
           out == RedisSaveToken(durable, redisUp, u, tok)
       IN /\ durable' = out.keys
          /\ pending' = [pending EXCEPT ![u] =
                            IF out.err = "" /\ @ = tok THEN NoToken ELSE @]
          /\ quiet' = quiet
          /\ repl' = [repl EXCEPT !.todo[u] = NoToken, !.ref[u] = 0,
                                  !.ok = @ /\ out.err = ""]
    /\ UNCHANGED <<web, lk, now, redisUp, healthVars, cache, cacheRef, th, issued, hist>>

\* StartReplicationRoutine, lines 119-123: one entry of the snapshot is saved.
Replicate_push(u) ==
    /\ repl.active
    /\ repl.todo[u] # NoToken
    /\ LET tok == Deref(repl.ref[u], repl.todo[u])
           out == RedisSaveToken(durable, redisUp, u, tok)
       IN /\ durable' = out.keys
          /\ pending' = [pending EXCEPT ![u] =
                            IF out.err = "" /\ @ = tok THEN NoToken ELSE @]
          /\ quiet' = quiet
          /\ repl' = [repl EXCEPT !.todo[u] = NoToken, !.ref[u] = 0,
                                  !.ok = @ /\ out.err = ""]
    /\ UNCHANGED <<web, lk, now, redisUp, healthVars, cache, cacheRef, th, issued, hist>>

\* StartReplicationRoutine: the range loop ends, back to the select.
Replicate_done ==
    /\ repl.active
    /\ \A u \in Keys : repl.todo[u] = NoToken
    /\ repl' = ReplIdle
    /\ UNCHANGED <<web, lk, now, redisUp, healthVars, storeVars, th, issued>>

(* ------------------------- direct store callers ----------------------- *)
Call(t, op, pc, ret, u, tok, arg) ==
    /\ th[t] = Idle
    /\ th' = [th EXCEPT ![t] = [Idle EXCEPT !.op = op, !.pc = pc, !.ret = ret,
                                            !.usr = u, !.tok = tok, !.arg = arg]]

CallSaveToken(t) ==
    /\ \E u \in Users, n \in 1..NumRecs :
          Call(t, "SaveToken", "save_cache", "done", u, SampleToken(n), "")
    /\ UNCHANGED <<web, lk, now, redisUp, healthVars, storeVars, repl, issued>>

\* handlers.go StatusHandler calls tokenStore.GetToken directly.
CallGetToken(t) ==
    /\ \E u \in Users : Call(t, "GetToken", "get_redis", "done", u, NoToken, "")
    /\ UNCHANGED <<web, lk, now, redisUp, healthVars, storeVars, repl, issued>>

CallDeleteToken(t) ==
    /\ \E u \in Users : Call(t, "DeleteToken", "delete_cache", "done", u, NoToken, "")
    /\ UNCHANGED <<web, lk, now, redisUp, healthVars, storeVars, repl, issued>>

\* The caller takes the result; the goroutine ends.
Return(t) ==
    /\ th[t].pc = "done"
    /\ th' = [th EXCEPT ![t] = Idle]
    /\ cacheRef' = [u \in Keys |-> IF cacheRef[u] = t THEN 0 ELSE cacheRef[u]]
    /\ repl' = [repl EXCEPT !.ref = [u \in Keys |-> IF repl.ref[u] = t THEN 0 ELSE repl.ref[u]]]
    /\ UNCHANGED <<web, lk, now, redisUp, healthVars, cache, durable, pending, quiet, issued, hist>>

(* ----------------------------- environment ---------------------------- *)
\* The Redis server becomes unreachable, or reachable again.
RedisFails ==
    /\ redisUp
    /\ redisUp' = FALSE
    /\ hist' = ForgetAll(hist)
    /\ UNCHANGED <<web, lk, now, healthVars, cache, cacheRef, durable, pending, quiet, th, repl, issued>>

RedisRecovers ==
    /\ ~redisUp
    /\ redisUp' = TRUE
    /\ quiet' = [u \in Keys |-> FALSE]
    /\ UNCHANGED <<web, lk, now, healthVars, cache, cacheRef, durable, pending, th, repl, issued, hist>>

\* HealthChecker.Check as the store sees it: the flag becomes the result of a
\* probe, which is true only when Redis answered PONG.
HealthSignal ==
    /\ \E b \in BOOLEAN :
          /\ b => redisUp
          /\ b # status
          /\ status' = b
          /\ hist' = IF b THEN hist ELSE ForgetAll(hist)
    /\ UNCHANGED <<web, lk, now, redisUp, cb, hc, cache, cacheRef, durable, pending, quiet, th, repl, issued>>

StoreStep(t) ==
    \/ SaveToken_cache(t)
    \/ SaveToken_redis(t)
    \/ GetToken_redis(t)
    \/ GetToken_update(t)
    \/ GetToken_cache(t)
    \/ DeleteToken_cache(t)
    \/ DeleteToken_redis(t)
    \/ Return(t)

Replication ==
    \/ Replicate_tick
    \/ \E u \in Keys : Replicate_push(u)
    \/ Replicate_done

Environment ==
    \/ RedisFails
    \/ RedisRecovers
    \/ HealthSignal

Background == Replication \/ Environment

Next ==
    \/ \E t \in Threads : CallSaveToken(t) \/ CallGetToken(t) \/ CallDeleteToken(t)
    \/ \E t \in Threads : StoreStep(t)
    \/ Background

Spec == Init /\ [][Next]_vars

\* The replication goroutine over a cache that already holds records of
\* users other than the one the request goroutine acts for (saved earlier,
\* while the flag was untrusted or before Redis lost them).
InitRepl ==
    /\ now = 0
    /\ redisUp \in BOOLEAN
    /\ status = FALSE
    /\ cb = BreakerClosed
    /\ hc = CheckerStart
    /\ cache \in [Keys -> {NoToken, SampleToken(1)}]
    /\ \A u \in Users : cache[u] = NoToken
    /\ cacheRef = [u \in Keys |-> 0]
    /\ durable = [u \in Keys |-> NoToken]
    /\ th = [t \in Threads |-> Idle]
    /\ repl = ReplIdle
    /\ pending = [u \in Keys |-> NoToken]
    /\ quiet = [u \in Keys |-> FALSE]
    /\ issued = 0
    /\ hist = [u \in Keys |-> NoHistory]
    /\ lk = LocksFree
    /\ web = NoRequests

NextRepl ==
    \/ CallSaveToken(1) \/ CallGetToken(1) \/ CallDeleteToken(1)
    \/ StoreStep(1)
    \/ Background

SpecRepl == InitRepl /\ [][NextRepl]_vars

(* ---------------------------- HealthChecker --------------------------- *)
\* A breaker that never leaves the open state.
CurrentState_staysOpen(b, t) == b

\* A breaker whose open state lets the next request through at once.
CurrentState_noCoolDown(b, t) ==
    IF b.state = "open"
    THEN [state |-> "half-open", fails |-> 0, requests |-> 0, expiry |-> 0]
    ELSE b

\* gobreaker currentState(now), called by Execute before and after the
\* request: an open breaker whose expiry is before now becomes half-open
\* (a new generation: counts cleared, no expiry).  With Interval 0 the closed
\* state has no expiry and never starts a new generation by itself.
CurrentState(b, t) ==
    IF b.state = "open" /\ b.expiry < t
    THEN [state |-> "half-open", fails |-> 0, requests |-> 0, expiry |-> 0]
    ELSE b

\* A breaker that never rejects a call.
Admits_always(b) == TRUE

\* gobreaker beforeRequest: open rejects with ErrOpenState, half-open with
\* MaxRequests (0, which gobreaker reads as 1) requests admitted rejects with
\* ErrTooManyRequests.
Admits(b) ==
    /\ b.state # "open"
    /\ ~(b.state = "half-open" /\ b.requests >= 1)

\* A breaker that counts failures in total: a success does not clear the count.
AfterRequest_noReset(b, success, t) ==
    LET open == [state |-> "open", fails |-> 0, requests |-> 0, expiry |-> t + BreakerTimeout]
    IN IF b.state = "closed"
       THEN IF success THEN b
            ELSE IF b.fails + 1 >= TripThreshold THEN open
            ELSE [b EXCEPT !.fails = @ + 1]
       ELSE IF success THEN BreakerClosed ELSE open

\* A breaker whose failed half-open trial counts as one failure of a closed
\* breaker instead of opening again.
AfterRequest_halfOpenCounts(b, success, t) ==
    LET open == [state |-> "open", fails |-> 0, requests |-> 0, expiry |-> t + BreakerTimeout]
    IN IF success THEN [BreakerClosed EXCEPT !.requests = IF b.state = "closed" THEN b.requests ELSE 0]
       ELSE IF b.state = "closed" /\ b.fails + 1 >= TripThreshold THEN open
       ELSE [state |-> "closed", fails |-> IF b.state = "closed" THEN b.fails + 1 ELSE 1,
             requests |-> b.requests, expiry |-> 0]

\* gobreaker afterRequest: onSuccess and onFailure for the state the request
\* ran in; setState opens with expiry now + Timeout.
AfterRequest(b, success, t) ==
    LET open == [state |-> "open", fails |-> 0, requests |-> 0, expiry |-> t + BreakerTimeout]
    IN IF b.state = "closed"
       THEN IF success THEN [b EXCEPT !.fails = 0]
            ELSE IF b.fails + 1 >= TripThreshold THEN open
            ELSE [b EXCEPT !.fails = @ + 1]
       ELSE IF success THEN BreakerClosed ELSE open

\* startPeriodicChecks, lines 74-76, into Check, line 55: a tick is received
\* and Execute is entered.  A rejected call returns at once and Check stores
\* false (lines 60-64); an admitted call sends the PING.
ProbeBegin ==
    /\ hc.pc = "wait"
    /\ now >= hc.next
    /\ LET b == CurrentState(cb, now)
       IN IF Admits(b)
          THEN /\ cb' = [b EXCEPT !.requests = @ + 1]
               /\ hc' = [hc EXCEPT !.pc = "probing", !.began = now, !.next = @ + CheckInterval]
               /\ status' = status
               /\ hist' = hist
          ELSE /\ cb' = b
               /\ hc' = [hc EXCEPT !.next = @ + CheckInterval]
               /\ status' = FALSE
               /\ hist' = ForgetAll(hist)
    /\ UNCHANGED <<web, lk, now, redisUp, cache, cacheRef, durable, pending, quiet, th, repl, issued>>

\* Check, lines 57-64: the PING returns PONG or fails (at the latest when the
\* 2-second context expires); the breaker records the outcome and the flag
\* becomes the outcome.
ProbeEnd ==
    /\ hc.pc = "probing"
    /\ LET success == redisUp
           streak == IF success THEN 0 ELSE hc.streak + 1
       IN /\ cb' = AfterRequest(CurrentState(cb, now), success, now)
          /\ status' = success
          /\ hc' = [hc EXCEPT !.pc = "wait", !.streak = streak,
                               !.last = IF success THEN "ok" ELSE "fail",
                               !.tripAt = IF streak >= TripThreshold THEN now ELSE @]
          /\ hist' = IF success THEN hist ELSE ForgetAll(hist)
    /\ UNCHANGED <<web, lk, now, redisUp, cache, cacheRef, durable, pending, quiet, th, repl, issued>>

\* A second passes.  A tick is received at most MaxJitter seconds late and a
\* PING does not outlive its context.
Tick ==
    /\ now < MaxProbeTime
    /\ hc.pc = "wait" => now < hc.next + MaxJitter
    /\ hc.pc = "probing" => now < hc.began + ProbeDeadline
    /\ now' = now + 1
    /\ UNCHANGED <<web, lk, redisUp, healthVars, storeVars, th, repl, issued>>

\* The health checker goroutine against a Redis that comes and goes.
NextHealth ==
    \/ ProbeBegin
    \/ ProbeEnd
    \/ Tick
    \/ RedisFails
    \/ RedisRecovers

SpecHealth == Init /\ [][NextHealth]_vars

\* The origin of the clock is moved to now.  Every duration the code computes
\* is a difference of two times (ticker period, context deadline, breaker
\* expiry against time.Now), so nothing the program does depends on the
\* origin; an expiry already past stays past.  History older than the trip
\* threshold is dropped.  Counts.Requests of a closed breaker, which nothing
\* reads (ReadyToTrip reads ConsecutiveFailures, MaxRequests applies to the
\* half-open state), restarts at 0.  The origin is moved every CheckInterval
\* seconds.
Rebase ==
    /\ now = CheckInterval
    /\ now' = 0
    /\ hc' = [hc EXCEPT !.next = @ - now,
                        !.began = IF hc.pc = "probing" THEN @ - now ELSE 0,
                        !.tripAt = -1,
                        !.streak = IF @ > TripThreshold THEN TripThreshold ELSE @]
    /\ cb' = [cb EXCEPT !.expiry = IF cb.state # "open" THEN @
                                   ELSE IF @ < now THEN -1 ELSE @ - now,
                        !.requests = IF cb.state = "closed" THEN 0 ELSE @]
    /\ UNCHANGED <<web, lk, redisUp, status, storeVars, th, repl, issued>>

\* The health checker goroutine for ever: time does not stop, a tick that is
\* due is received and a PING that was sent returns.
TickHeal == now < CheckInterval /\ Tick

NextHeal ==
    \/ ProbeBegin
    \/ ProbeEnd
    \/ TickHeal
    \/ Rebase
    \/ RedisFails
    \/ RedisRecovers

SpecHeal ==
    /\ Init
    /\ [][NextHeal]_vars
    /\ WF_vars(TickHeal) /\ WF_vars(Rebase)
    /\ WF_vars(ProbeBegin) /\ WF_vars(ProbeEnd)

\* main.go line 33: cancel() runs, the application context is done.
Cancel ==
    /\ ~lk.cancelled
    /\ lk' = [lk EXCEPT !.cancelled = TRUE]
    /\ UNCHANGED <<web, now, redisUp, healthVars, storeVars, th, repl, issued>>

\* StartReplicationRoutine, lines 102-105: the select receives a tick.
Replicate_select ==
    /\ lk.repl = "idle"
    /\ Replicate_tick

\* StartReplicationRoutine, lines 102-104: the select receives ctx.Done();
\* the goroutine returns.
Replicate_stop ==
    /\ lk.repl = "idle"
    /\ ~repl.active
    /\ lk.cancelled
    /\ lk' = [lk EXCEPT !.repl = "stopped"]
    /\ UNCHANGED <<web, now, redisUp, healthVars, storeVars, th, repl, issued>>

\* The two background goroutines and the cancellation of the application
\* context.  startPeriodicChecks (part_003 70-79) ranges over its ticker and
\* receives no context: it has no step that ends it.  A select with
\* ctx.Done() ready sooner or later takes it; a pass that has started makes
\* its SETs and ends.
NextStop ==
    \/ NextHeal
    \/ Cancel
    \/ Replicate_select
    \/ \E u \in Keys : Replicate_push(u)
    \/ Replicate_done
    \/ Replicate_stop

SpecStop ==
    /\ InitRepl
    /\ [][NextStop]_vars
    /\ WF_vars(TickHeal) /\ WF_vars(Rebase)
    /\ WF_vars(ProbeBegin) /\ WF_vars(ProbeEnd)
    /\ WF_vars(\E u \in Keys : Replicate_push(u)) /\ WF_vars(Replicate_done)
    /\ SF_vars(Replicate_stop)

\* The store called by one request goroutine while the health checker runs
\* on its clock: the flag the store reads is the one Check assigned.
NextBoot ==
    \/ NextHealth
    \/ CallSaveToken(1) \/ CallGetToken(1) \/ CallDeleteToken(1)
    \/ StoreStep(1)

SpecBoot == Init /\ [][NextBoot]_vars

(* ----------------------- the store, lock by lock ---------------------- *)
\* The same FallbackTokenStore and HealthChecker code, one step per mutex
\* operation and per Redis call, so that who holds which lock while a call
\* is in flight is part of the state.  A goroutine at an "_io" program point
\* (the checker at "ping") has its Redis call in flight; the call may take
\* for ever.  Goroutines are numbered: request goroutines by their thread,
\* then the replication goroutine and the health check goroutine.
Replicator == NumThreads + 1
Checker == NumThreads + 2

\* sync.RWMutex: Lock waits for no writer and no readers, RLock for no writer.
CanLock(m) == m.writer = 0 /\ m.readers = {}
CanRLock(m) == m.writer = 0
Lock(m, g) == [m EXCEPT !.writer = g]
Unlock(m) == [m EXCEPT !.writer = 0]
RLock(m, g) == [m EXCEPT !.readers = @ \cup {g}]
RUnlock(m, g) == [m EXCEPT !.readers = @ \ {g}]

\* The locks goroutine g holds.
Holds(m, g) == m.writer = g \/ g \in m.readers

\* A request goroutine enters SaveToken, GetToken or DeleteToken.
Lk_Call(t) ==
    /\ \/ \E u \in Users : Call(t, "SaveToken", "sv_lock", "", u, SampleToken(1), "")
       \/ \E u \in Users : Call(t, "GetToken", "h_rlock", "gt_io", u, NoToken, "")
       \/ \E u \in Users : Call(t, "DeleteToken", "dl_lock", "", u, NoToken, "")
    /\ UNCHANGED <<web, lk, now, redisUp, healthVars, storeVars, repl, issued>>

\* Where a store operation goes when healthCheck() returned false.
Untrusted(op) == IF op = "GetToken" THEN "gt_rlock" ELSE "idle"

\* IsHealthy, line 48: h.mu.RLock().
Lk_IsHealthy_rlock(t) ==
    /\ th[t].pc = "h_rlock"
    /\ CanRLock(lk.mu)
    /\ lk' = [lk EXCEPT !.mu = RLock(@, t)]
    /\ th' = [th EXCEPT ![t].pc = "h_rlocked"]
    /\ UNCHANGED <<web, now, redisUp, healthVars, storeVars, repl, issued>>

\* IsHealthy, lines 49-50: the flag is read and the read lock released; the
\* caller branches on it (fallback lines 39, 52, 85).
Lk_IsHealthy_read(t) ==
    /\ th[t].pc = "h_rlocked"
    /\ lk' = [lk EXCEPT !.mu = RUnlock(@, t)]
    /\ th' = IF status THEN [th EXCEPT ![t].pc = th[t].ret, ![t].ret = ""]
             ELSE IF Untrusted(th[t].op) = "idle" THEN [th EXCEPT ![t] = Idle]
             ELSE [th EXCEPT ![t].pc = Untrusted(th[t].op), ![t].ret = ""]
    /\ UNCHANGED <<web, now, redisUp, healthVars, storeVars, repl, issued>>

\* SaveToken line 34, DeleteToken line 80, GetToken line 56: cacheMutex.Lock().
Lk_Lock(t) ==
    /\ th[t].pc \in {"sv_lock", "dl_lock", "gt_lock"}
    /\ CanLock(lk.cacheMutex)
    /\ lk' = [lk EXCEPT !.cacheMutex = Lock(@, t)]
    /\ th' = [th EXCEPT ![t].pc = CASE th[t].pc = "sv_lock" -> "sv_locked"
                                    [] th[t].pc = "dl_lock" -> "dl_locked"
                                    [] th[t].pc = "gt_lock" -> "gt_locked"]
    /\ UNCHANGED <<web, now, redisUp, healthVars, storeVars, repl, issued>>

\* A SaveToken that defers the Unlock to its return.
Lk_SaveToken_write_deferUnlock(t) ==
    /\ th[t].pc = "sv_locked"
    /\ cache' = [cache EXCEPT ![th[t].usr] = th[t].tok]
    /\ th' = [th EXCEPT ![t].pc = "h_rlock", ![t].ret = "sv_io"]
    /\ UNCHANGED <<web, lk, now, redisUp, healthVars, cacheRef, durable, pending, quiet, hist, repl, issued>>

\* SaveToken, lines 35-36: the map write, Unlock, on to healthCheck().
Lk_SaveToken_write(t) ==
    /\ th[t].pc = "sv_locked"
    /\ cache' = [cache EXCEPT ![th[t].usr] = th[t].tok]
    /\ lk' = [lk EXCEPT !.cacheMutex = Unlock(@)]
    /\ th' = [th EXCEPT ![t].pc = "h_rlock", ![t].ret = "sv_io"]
    /\ UNCHANGED <<web, now, redisUp, healthVars, cacheRef, durable, pending, quiet, hist, repl, issued>>

\* SaveToken, lines 40-46: the Redis SET returns; nil is returned.
Lk_SaveToken_io(t) ==
    /\ th[t].pc = "sv_io"
    /\ durable' = RedisSaveToken(durable, redisUp, th[t].usr, th[t].tok).keys
    /\ th' = [th EXCEPT ![t] = Idle]
    /\ UNCHANGED <<web, lk, now, redisUp, healthVars, cache, cacheRef, pending, quiet, hist, repl, issued>>

\* DeleteToken, lines 81-82: the map delete, Unlock, on to healthCheck().
Lk_DeleteToken_write(t) ==
    /\ th[t].pc = "dl_locked"
    /\ cache' = [cache EXCEPT ![th[t].usr] = NoToken]
    /\ lk' = [lk EXCEPT !.cacheMutex = Unlock(@)]
    /\ th' = [th EXCEPT ![t].pc = "h_rlock", ![t].ret = "dl_io"]
    /\ UNCHANGED <<web, now, redisUp, healthVars, cacheRef, durable, pending, quiet, hist, repl, issued>>

\* DeleteToken, lines 86-92: the Redis DEL returns; nil is returned.
Lk_DeleteToken_io(t) ==
    /\ th[t].pc = "dl_io"
    /\ durable' = RedisDeleteToken(durable, redisUp, th[t].usr).keys
    /\ th' = [th EXCEPT ![t] = Idle]
    /\ UNCHANGED <<web, lk, now, redisUp, healthVars, cache, cacheRef, pending, quiet, hist, repl, issued>>

\* GetToken, lines 53-54 and 62: the Redis GET returns.
Lk_GetToken_io(t) ==
    /\ th[t].pc = "gt_io"
    /\ LET out == RedisGetToken(durable, redisUp, th[t].usr)
       IN th' = [th EXCEPT ![t].tok = out.tok,
                           ![t].pc = IF out.err = "" THEN "gt_lock" ELSE "gt_rlock"]
    /\ UNCHANGED <<web, lk, now, redisUp, healthVars, storeVars, repl, issued>>

\* GetToken, lines 57-59: the map write, Unlock, return.
Lk_GetToken_write(t) ==
    /\ th[t].pc = "gt_locked"
    /\ cache' = [cache EXCEPT ![th[t].usr] = th[t].tok]
    /\ lk' = [lk EXCEPT !.cacheMutex = Unlock(@)]
    /\ th' = [th EXCEPT ![t] = Idle]
    /\ UNCHANGED <<web, now, redisUp, healthVars, cacheRef, durable, pending, quiet, hist, repl, issued>>

\* GetToken, line 66: cacheMutex.RLock().
Lk_GetToken_rlock(t) ==
    /\ th[t].pc = "gt_rlock"
    /\ CanRLock(lk.cacheMutex)
    /\ lk' = [lk EXCEPT !.cacheMutex = RLock(@, t)]
    /\ th' = [th EXCEPT ![t].pc = "gt_rlocked"]
    /\ UNCHANGED <<web, now, redisUp, healthVars, storeVars, repl, issued>>

\* GetToken, lines 67-74: the map read, RUnlock, return.
Lk_GetToken_read(t) ==
    /\ th[t].pc = "gt_rlocked"
    /\ lk' = [lk EXCEPT !.cacheMutex = RUnlock(@, t)]
    /\ th' = [th EXCEPT ![t] = Idle]
    /\ UNCHANGED <<web, now, redisUp, healthVars, storeVars, repl, issued>>

\* StartReplicationRoutine, lines 105-106: a tick; healthCheck() is called.
Lk_Replicate_tick ==
    /\ lk.repl = "idle"
    /\ lk' = [lk EXCEPT !.repl = "h_rlock"]
    /\ UNCHANGED <<web, now, redisUp, healthVars, storeVars, th, repl, issued>>

\* IsHealthy, line 48, called by the replication goroutine.
Lk_Replicate_health_rlock ==
    /\ lk.repl = "h_rlock"
    /\ CanRLock(lk.mu)
    /\ lk' = [lk EXCEPT !.mu = RLock(@, Replicator), !.repl = "h_rlocked"]
    /\ UNCHANGED <<web, now, redisUp, healthVars, storeVars, th, repl, issued>>

\* IsHealthy, lines 49-50, then line 106: an unhealthy tick is skipped.
Lk_Replicate_health_read ==
    /\ lk.repl = "h_rlocked"
    /\ lk' = [lk EXCEPT !.mu = RUnlock(@, Replicator),
                        !.repl = IF status THEN "snap_rlock" ELSE "idle"]
    /\ UNCHANGED <<web, now, redisUp, healthVars, storeVars, th, repl, issued>>

\* StartReplicationRoutine, line 111: cacheMutex.RLock().
Lk_Replicate_rlock ==
    /\ lk.repl = "snap_rlock"
    /\ CanRLock(lk.cacheMutex)
    /\ lk' = [lk EXCEPT !.cacheMutex = RLock(@, Replicator), !.repl = "snap_rlocked"]
    /\ UNCHANGED <<web, now, redisUp, healthVars, storeVars, th, repl, issued>>

\* StartReplicationRoutine, lines 112-116: the map is copied, RUnlock.
Lk_Replicate_copy ==
    /\ lk.repl = "snap_rlocked"
    /\ repl' = [ReplIdle EXCEPT !.active = TRUE, !.todo = cache, !.ref = cacheRef]
    /\ lk' = [lk EXCEPT !.cacheMutex = RUnlock(@, Replicator), !.repl = "push"]
    /\ UNCHANGED <<web, now, redisUp, healthVars, storeVars, th, issued>>

\* StartReplicationRoutine, lines 119-123: the Redis SET of one copied entry
\* returns.
Lk_Replicate_push(u) ==
    /\ lk.repl = "push"
    /\ repl.todo[u] # NoToken
    /\ durable' = RedisSaveToken(durable, redisUp, u, Deref(repl.ref[u], repl.todo[u])).keys
    /\ repl' = [repl EXCEPT !.todo[u] = NoToken, !.ref[u] = 0]
    /\ UNCHANGED <<web, lk, now, redisUp, healthVars, cache, cacheRef, pending, quiet, hist, th, issued>>

\* StartReplicationRoutine: the range loop ends, back to the select.
Lk_Replicate_done ==
    /\ lk.repl = "push"
    /\ \A u \in Keys : repl.todo[u] = NoToken
    /\ repl' = ReplIdle
    /\ lk' = [lk EXCEPT !.repl = "idle"]
    /\ UNCHANGED <<web, now, redisUp, healthVars, storeVars, th, issued>>

\* A health check goroutine that takes h.mu before Execute and holds it
\* through the PING.
Lk_Check_execute_locked ==
    /\ lk.check = "idle"
    /\ cb.requests < MaxProbes
    /\ CanLock(lk.mu)
    /\ LET b == CurrentState(cb, now)
       IN IF Admits(b)
          THEN /\ cb' = [b EXCEPT !.requests = @ + 1]
               /\ lk' = [lk EXCEPT !.check = "ping", !.mu = Lock(@, Checker)]
          ELSE /\ cb' = b
               /\ lk' = [lk EXCEPT !.check = "c_lock", !.result = FALSE]
    /\ UNCHANGED <<web, now, redisUp, status, hc, storeVars, th, repl, issued>>

\* startPeriodicChecks, lines 74-76, into Check, line 55: a tick is received
\* and Execute is entered with no lock held.  A rejected call returns at once
\* with an error (isHealthy false, line 60); an admitted call sends the PING.
Lk_Check_execute ==
    /\ lk.check = "idle"
    /\ cb.requests < MaxProbes
    /\ LET b == CurrentState(cb, now)
       IN IF Admits(b)
          THEN /\ cb' = [b EXCEPT !.requests = @ + 1]
               /\ lk' = [lk EXCEPT !.check = "ping"]
          ELSE /\ cb' = b
               /\ lk' = [lk EXCEPT !.check = "c_lock", !.result = FALSE]
    /\ UNCHANGED <<web, now, redisUp, status, hc, storeVars, th, repl, issued>>

\* Check, lines 57-60: the PING returns PONG or an error; the breaker records
\* the outcome.
Lk_Check_ping ==
    /\ lk.check = "ping"
    /\ \E ok \in BOOLEAN :
          /\ ok => redisUp
          /\ cb' = AfterRequest(cb, ok, now)
          /\ lk' = [lk EXCEPT !.check = "c_lock", !.result = ok]
    /\ UNCHANGED <<web, now, redisUp, status, hc, storeVars, th, repl, issued>>

\* Check, line 62: h.mu.Lock().
Lk_Check_lock ==
    /\ lk.check = "c_lock"
    /\ CanLock(lk.mu)
    /\ lk' = [lk EXCEPT !.mu = Lock(@, Checker), !.check = "c_locked"]
    /\ UNCHANGED <<web, now, redisUp, healthVars, storeVars, th, repl, issued>>

\* Check, lines 63-64: the flag is assigned, Unlock.
Lk_Check_store ==
    /\ lk.check = "c_locked"
    /\ status' = lk.result
    /\ lk' = [lk EXCEPT !.mu = Unlock(@), !.check = "idle", !.result = FALSE]
    /\ UNCHANGED <<web, now, redisUp, cb, hc, storeVars, th, repl, issued>>

Lk_StoreStep(t) ==
    \/ Lk_Call(t)
    \/ Lk_IsHealthy_rlock(t)
    \/ Lk_IsHealthy_read(t)
    \/ Lk_Lock(t)
    \/ Lk_SaveToken_write(t)
    \/ Lk_SaveToken_io(t)
    \/ Lk_DeleteToken_write(t)
    \/ Lk_DeleteToken_io(t)
    \/ Lk_GetToken_io(t)
    \/ Lk_GetToken_write(t)
    \/ Lk_GetToken_rlock(t)
    \/ Lk_GetToken_read(t)

Lk_Replication ==
    \/ Lk_Replicate_tick
    \/ Lk_Replicate_health_rlock
    \/ Lk_Replicate_health_read
    \/ Lk_Replicate_rlock
    \/ Lk_Replicate_copy
    \/ \E u \in Keys : Lk_Replicate_push(u)
    \/ Lk_Replicate_done

Lk_Check ==
    \/ Lk_Check_execute
    \/ Lk_Check_ping
    \/ Lk_Check_lock
    \/ Lk_Check_store

NextLocks ==
    \/ \E t \in Threads : Lk_StoreStep(t)
    \/ Lk_Replication
    \/ Lk_Check
    \/ RedisFails
    \/ RedisRecovers

SpecLocks == Init /\ [][NextLocks]_vars

(* ------------------------------ Service ------------------------------- *)
\* An error return that still hands back the token it has in hand.
Failed_keepsToken(t, err) ==
    [th EXCEPT ![t].pc = "done", ![t].ret = "", ![t].err = err]

\* An operation ends with an error.
Failed(t, err) ==
    [th EXCEPT ![t].pc = "done", ![t].ret = "", ![t].tok = NoToken, ![t].err = err]

\* executeTokenRequest, lines 128-138: the decoded body of a 200 response to
\* the upstream's n-th grant.
TokenResponses(n, refreshes, realms) ==
    {[access |-> n, refresh |-> r, expiresIn |-> e, realm |-> realm] :
        r \in refreshes, e \in ExpiresInValues, realm \in realms}

\* HandleCallback, line 59: the decoded token with its expiry time set.
ExchangedToken(resp, t) ==
    OAuthToken(resp.access, resp.refresh, t + resp.expiresIn, resp.realm)

\* handlers.go CallbackHandler, line 142, into HandleCallback, lines 47-56.
BeginCallback(t) ==
    /\ \E u \in Users, realm \in CallbackRealms :
          Call(t, "callback", "cb_exchange", "", u, NoToken, realm)
    /\ UNCHANGED <<web, lk, now, redisUp, healthVars, storeVars, repl, issued>>

\* HandleCallback, lines 53-62: the code is exchanged; on success the token
\* is stamped and handed to SaveToken.
HandleCallback_exchange(t) ==
    /\ th[t].pc = "cb_exchange"
    /\ \/ /\ th' = [Failed(t, "upstream") EXCEPT ![t].calls = Append(@, "code_grant_rejected")]
          /\ UNCHANGED issued
       \/ /\ issued < MaxGrants
          /\ issued' = issued + 1
          /\ \E resp \in TokenResponses(issued + 1, {issued + 1}, ResponseRealms) :
                th' = [th EXCEPT ![t].pc = "save_cache", ![t].ret = "cb_bind",
                                 ![t].resp = resp, ![t].tok = ExchangedToken(resp, now),
                                 ![t].calls = Append(@, "code_grant")]
    /\ UNCHANGED <<web, lk, now, redisUp, healthVars, storeVars, repl>>

\* A handler that never binds the realm.
BindsRealm_never(realmID) == FALSE

\* CallbackHandler, line 149: whether the handler binds the realm and saves again.
BindsRealm(realmID) == realmID # ""

\* CallbackHandler, lines 149-156: token.RealmID is assigned through the
\* pointer HandleCallback returned, which is the cache entry itself while no
\* other write has replaced it, and the token is saved again.
CallbackHandler_bind(t) ==
    /\ th[t].pc = "cb_bind"
    /\ LET u == th[t].usr
           bound == [th[t].tok EXCEPT !.realm = th[t].arg]
       IN IF BindsRealm(th[t].arg)
          THEN /\ th' = [th EXCEPT ![t].pc = "save_cache", ![t].ret = "done", ![t].tok = bound]
               /\ cache' = [cache EXCEPT ![u] = IF cacheRef[u] = t THEN bound ELSE @]
               /\ pending' = [pending EXCEPT ![u] =
                                 IF cacheRef[u] = t /\ @ = cache[u] THEN bound ELSE @]
               /\ hist' = Forget(hist, u)
          ELSE /\ th' = [th EXCEPT ![t].pc = "done"]
               /\ UNCHANGED <<cache, pending, hist>>
    /\ UNCHANGED <<web, lk, now, redisUp, healthVars, cacheRef, durable, quiet, repl, issued>>

\* A refresh that takes the realm from the upstream response.
RefreshedToken_realmFromResponse(old, resp, t) ==
    OAuthToken(resp.access,
               IF resp.refresh = 0 THEN old.refresh ELSE resp.refresh,
               t + resp.expiresIn,
               resp.realm)

\* A refresh that always takes the refresh token from the upstream response.
RefreshedToken_alwaysRotates(old, resp, t) ==
    OAuthToken(resp.access, resp.refresh, t + resp.expiresIn, old.realm)

\* RefreshToken, lines 89-95: the new token from the old one and the response.
RefreshedToken(old, resp, t) ==
    OAuthToken(resp.access,
               IF resp.refresh = 0 THEN old.refresh ELSE resp.refresh,
               t + resp.expiresIn,
               old.realm)

BeginRefresh(t) ==
    /\ \E u \in Users : Call(t, "refresh", "get_redis", "rf_grant", u, NoToken, "")
    /\ UNCHANGED <<web, lk, now, redisUp, healthVars, storeVars, repl, issued>>

\* A RefreshToken that holds a per-user lock from its GetToken to its
\* SaveToken: no grant while another refresh of the user is past its load.
RefreshToken_grant_exclusive(t) ==
    /\ th[t].pc = "rf_grant"
    /\ \A o \in Threads \ {t} :
          th[o].usr = th[t].usr => th[o].pc \in {"idle", "done", "get_redis", "get_update", "get_cache", "gv_check"}
    /\ IF th[t].err # ""
       THEN th' = Failed(t, th[t].err) /\ UNCHANGED issued
       ELSE \/ /\ th' = [Failed(t, "upstream") EXCEPT
                              ![t].calls = Append(@, "refresh_grant_rejected")]
               /\ UNCHANGED issued
            \/ /\ issued < MaxGrants
               /\ issued' = issued + 1
               /\ \E resp \in TokenResponses(issued + 1, {0, issued + 1}, ResponseRealms) :
                     th' = [th EXCEPT ![t].pc = "save_cache", ![t].ret = "done",
                                      ![t].old = th[t].tok, ![t].resp = resp,
                                      ![t].tok = RefreshedToken(th[t].tok, resp, now),
                                      ![t].calls = Append(@, "refresh_grant")]
    /\ UNCHANGED <<web, lk, now, redisUp, healthVars, storeVars, repl>>

\* RefreshToken, lines 72-98: after GetToken, the refresh grant; on success
\* the new token goes to SaveToken and is the result.
RefreshToken_grant(t) ==
    /\ th[t].pc = "rf_grant"
    /\ IF th[t].err # ""
       THEN th' = Failed(t, th[t].err) /\ UNCHANGED issued
       ELSE \/ /\ th' = [Failed(t, "upstream") EXCEPT
                              ![t].calls = Append(@, "refresh_grant_rejected")]
               /\ UNCHANGED issued
            \/ /\ issued < MaxGrants
               /\ issued' = issued + 1
               /\ \E resp \in TokenResponses(issued + 1, {0, issued + 1}, ResponseRealms) :
                     th' = [th EXCEPT ![t].pc = "save_cache", ![t].ret = "done",
                                      ![t].old = th[t].tok, ![t].resp = resp,
                                      ![t].tok = RefreshedToken(th[t].tok, resp, now),
                                      ![t].calls = Append(@, "refresh_grant")]
    /\ UNCHANGED <<web, lk, now, redisUp, healthVars, storeVars, repl>>

\* GetValidToken, line 149: time.Until(token.ExpiresAt) < 5*time.Minute.
NeedsRefresh(tok, t) == tok.expiresAt - t < RefreshMargin

BeginGetValidToken(t) ==
    /\ \E u \in Users : Call(t, "getvalid", "get_redis", "gv_check", u, NoToken, "")
    /\ UNCHANGED <<web, lk, now, redisUp, healthVars, storeVars, repl, issued>>

\* GetValidToken, lines 143-156: after GetToken, the expiry check; a token
\* inside the margin sends the call into RefreshToken, whose result is returned.
GetValidToken_check(t) ==
    /\ th[t].pc = "gv_check"
    /\ th' = IF th[t].err # "" THEN Failed(t, th[t].err)
             ELSE IF NeedsRefresh(th[t].tok, now)
             THEN [th EXCEPT ![t].pc = "get_redis", ![t].ret = "rf_grant",
                             ![t].old = th[t].tok]
             ELSE [th EXCEPT ![t].pc = "done"]
    /\ UNCHANGED <<web, lk, now, redisUp, healthVars, storeVars, repl, issued>>

BeginDisconnect(t) ==
    /\ \E u \in Users : Call(t, "disconnect", "get_redis", "dc_revoke_access", u, NoToken, "")
    /\ UNCHANGED <<web, lk, now, redisUp, healthVars, storeVars, repl, issued>>

\* A Disconnect that only logs a failed revocation and carries on.
AfterRevoke_carriesOn(ok, next) == next

\* Where Disconnect goes after a revocation call: lines 168-178.
AfterRevoke(ok, next) == IF ok THEN next ELSE "done"

\* A Disconnect that does not look at GetToken's error before revoking.
Disconnect_revokeAccess_unchecked(t) ==
    /\ th[t].pc = "dc_revoke_access"
    /\ \E ok \in BOOLEAN :
          th' = [th EXCEPT ![t].pc = AfterRevoke(ok, "dc_revoke_refresh"),
                           ![t].err = IF ok THEN "" ELSE "upstream",
                           ![t].calls = Append(@, IF ok THEN "revoke_access"
                                                  ELSE "revoke_access_failed")]
    /\ UNCHANGED <<web, lk, now, redisUp, healthVars, storeVars, repl, issued>>

\* Disconnect, lines 162-170: after GetToken, the access token is revoked.
Disconnect_revokeAccess(t) ==
    /\ th[t].pc = "dc_revoke_access"
    /\ IF th[t].err # ""
       THEN th' = Failed(t, th[t].err)
       ELSE \E ok \in BOOLEAN :
               th' = [th EXCEPT ![t].pc = AfterRevoke(ok, "dc_revoke_refresh"),
                                ![t].err = IF ok THEN "" ELSE "upstream",
                                ![t].calls = Append(@, IF ok THEN "revoke_access"
                                                       ELSE "revoke_access_failed")]
    /\ UNCHANGED <<web, lk, now, redisUp, healthVars, storeVars, repl, issued>>

\* Disconnect, lines 173-178: the refresh token is revoked, then DeleteToken.
Disconnect_revokeRefresh(t) ==
    /\ th[t].pc = "dc_revoke_refresh"
    /\ \E ok \in BOOLEAN :
          th' = [th EXCEPT ![t].pc = AfterRevoke(ok, "delete_cache"),
                           ![t].ret = IF ok THEN "done" ELSE "",
                           ![t].err = IF ok THEN "" ELSE "upstream",
                           ![t].calls = Append(@, IF ok THEN "revoke_refresh"
                                                  ELSE "revoke_refresh_failed")]
    /\ UNCHANGED <<web, lk, now, redisUp, healthVars, storeVars, repl, issued>>

\* Time passes between and during requests.
Elapse ==
    /\ now < MaxClock
    /\ now' = now + RefreshMargin
    /\ UNCHANGED <<web, lk, redisUp, healthVars, storeVars, th, repl, issued>>

ServiceStep(t) ==
    \/ HandleCallback_exchange(t)
    \/ CallbackHandler_bind(t)
    \/ RefreshToken_grant(t)
    \/ GetValidToken_check(t)
    \/ Disconnect_revokeAccess(t)
    \/ Disconnect_revokeRefresh(t)

\* The Service driven by request goroutines over the store, with Redis and
\* the health flag changing underneath and the clock advancing.
NextAuth ==
    \/ \E t \in AuthThreads : BeginCallback(t) \/ BeginRefresh(t) \/ BeginGetValidToken(t)
    \/ \E t \in AuthThreads : BeginDisconnect(t) \/ CallGetToken(t)
    \/ \E t \in AuthThreads : ServiceStep(t)
    \/ \E t \in AuthThreads : StoreStep(t)
    \/ Environment
    \/ Elapse

SpecAuth == Init /\ [][NextAuth]_vars

\* The record of a user who connected before the behaviour starts: its
\* tokens come from a grant earlier than every grant counted in issued, it
\* is about to expire, and it is in the cache and in Redis.
EarlierGrant == MaxGrants + 1
SeedToken == OAuthToken(EarlierGrant, EarlierGrant, 0, "r1")

InitRefresh ==
    /\ now = 0
    /\ redisUp \in BOOLEAN
    /\ status \in BOOLEAN
    /\ cb = BreakerClosed
    /\ hc = CheckerStart
    /\ cache = [u \in Keys |-> IF u \in Users THEN SeedToken ELSE NoToken]
    /\ cacheRef = [u \in Keys |-> 0]
    /\ durable = cache
    /\ th = [t \in Threads |-> Idle]
    /\ repl = ReplIdle
    /\ pending = [u \in Keys |-> NoToken]
    /\ quiet = [u \in Keys |-> FALSE]
    /\ issued = 0
    /\ hist = [u \in Keys |-> NoHistory]
    /\ lk = LocksFree
    /\ web = NoRequests

\* Two request goroutines refreshing the same user's token.
RefreshStep(t) ==
    \/ BeginRefresh(t)
    \/ GetToken_redis(t)
    \/ GetToken_update(t)
    \/ GetToken_cache(t)
    \/ RefreshToken_grant(t)
    \/ SaveToken_cache(t)
    \/ SaveToken_redis(t)
    \/ Return(t)

NextRefresh ==
    \/ \E t \in Threads : RefreshStep(t)
    \/ Environment

SpecRefresh == InitRefresh /\ [][NextRefresh]_vars

\* An upstream that rotates refresh tokens: the refresh token it accepts for
\* the user is the one of its latest grant; every grant it makes carries a
\* new refresh token and a request that presents any other token is
\* rejected.
ValidRefresh == IF issued = 0 THEN EarlierGrant ELSE issued

RefreshToken_grant_rotating(t) ==
    /\ RefreshToken_grant(t)
    /\ issued' # issued =>
          /\ th[t].tok.refresh = ValidRefresh
          /\ th'[t].resp.refresh = issued'

NextRotate ==
    \/ \E t \in Threads : BeginRefresh(t)
    \/ \E t \in Threads : GetToken_redis(t) \/ GetToken_update(t) \/ GetToken_cache(t)
    \/ \E t \in Threads : RefreshToken_grant_rotating(t)
    \/ \E t \in Threads : SaveToken_cache(t) \/ SaveToken_redis(t) \/ Return(t)
    \/ Environment

SpecRotate == InitRefresh /\ [][NextRotate]_vars

(* ------------------------- the auth handlers -------------------------- *)
\* Sessions are a gorilla CookieStore (models.go 234-243): the session of a
\* request is what its cookie decodes to, session.Save puts the session in
\* a Set-Cookie header of the response, and the server keeps nothing between
\* requests.  One browser, logged in as one user; each request it sends
\* carries the cookie it holds when it sends it.

\* ConnectHandler, lines 69-96: a new state and its expiry are put in the
\* session, the session is saved and the redirect is written.
ConnectHandler(t) ==
    /\ web.minted < MaxStates
    /\ \E u \in Users : Call(t, "connect", "done", "", u, NoToken, "")
    /\ web' = [web EXCEPT !.minted = @ + 1, !.set[t] = TRUE,
                          !.req[t] = [state |-> web.minted + 1, expiry |-> now + StateTTL]]
    /\ UNCHANGED <<lk, now, redisUp, healthVars, storeVars, repl, issued>>

\* The browser is redirected to, or reloads, the callback URL.  The state
\* parameter is any generated state, or missing or empty (0).
CallbackSent ==
    /\ Len(web.wire) < MaxInFlight
    /\ \E state \in 0..MaxStates :
          web' = [web EXCEPT !.wire = Append(@, [session |-> web.jar, state |-> state])]
    /\ UNCHANGED <<lk, now, redisUp, healthVars, storeVars, th, repl, issued>>

\* The sequence s without its i-th element.
Without(s, i) == [j \in 1..(Len(s) - 1) |-> IF j < i THEN s[j] ELSE s[j + 1]]

\* A callback request arrives and a goroutine serves it: CallbackHandler,
\* lines 100-112.
CallbackRequest(t) ==
    /\ \E u \in Users, realm \in CallbackRealms :
          Call(t, "callback", "cb_verify", "", u, NoToken, realm)
    /\ \E i \in 1..Len(web.wire) :
          web' = [web EXCEPT !.req[t] = web.wire[i].session,
                             !.param[t] = web.wire[i].state,
                             !.wire = Without(@, i)]
    /\ UNCHANGED <<lk, now, redisUp, healthVars, storeVars, repl, issued>>

\* CallbackHandler, lines 114-138: the parameter is checked against the
\* session, then the expiry against the clock; the two values are deleted
\* from the session and the session is saved; line 141 calls HandleCallback.
CallbackHandler_verify(t) ==
    /\ th[t].pc = "cb_verify"
    /\ LET session == web.req[t]
           state == web.param[t]
       IN IF state = 0
          THEN th' = Failed(t, "parameters") /\ UNCHANGED web
          ELSE IF session.state = 0 \/ session.state # state
          THEN th' = Failed(t, "state") /\ UNCHANGED web
          ELSE IF now > session.expiry
          THEN th' = Failed(t, "expired") /\ UNCHANGED web
          ELSE /\ th' = [th EXCEPT ![t].pc = "cb_exchange"]
               /\ web' = [web EXCEPT !.req[t] = NoSession, !.set[t] = TRUE,
                                     !.used = @ \cup {state}]
    /\ UNCHANGED <<lk, now, redisUp, healthVars, storeVars, repl, issued>>

\* The response is written (http.Error, http.Redirect or WriteHeader) and
\* reaches the browser, which stores the cookie of a Set-Cookie header.
WriteResponse(t) ==
    /\ th[t].pc = "done"
    /\ <<web.req[t], web.param[t], web.set[t]>> # <<NoSession, 0, FALSE>>
    /\ web' = [web EXCEPT !.jar = IF web.set[t] THEN web.req[t] ELSE @,
                          !.req[t] = NoSession, !.param[t] = 0, !.set[t] = FALSE]
    /\ UNCHANGED <<lk, now, redisUp, healthVars, storeVars, th, repl, issued>>

\* The handler returns once its response is written.
HandlerReturns(t) ==
    /\ <<web.req[t], web.param[t], web.set[t]>> = <<NoSession, 0, FALSE>>
    /\ Return(t)

\* Time passes while the browser is at the authorization page.
Wait ==
    /\ now < StateTTL + RefreshMargin
    /\ now' = now + RefreshMargin
    /\ UNCHANGED <<web, lk, redisUp, healthVars, storeVars, th, repl, issued>>

SessionStep(t) ==
    \/ ConnectHandler(t)
    \/ CallbackRequest(t)
    \/ CallbackHandler_verify(t)
    \/ HandleCallback_exchange(t)
    \/ SaveToken_cache(t)
    \/ SaveToken_redis(t)
    \/ CallbackHandler_bind(t)
    \/ WriteResponse(t)
    \/ HandlerReturns(t)

\* The browser, and the connect and callback handlers serving its requests.
NextSession ==
    \/ \E t \in AuthThreads : SessionStep(t)
    \/ CallbackSent
    \/ Wait

SpecSession == Init /\ [][NextSession]_vars

(* ============================== claims ================================ *)

\* Thread t takes the step that leaves program point pc.
Leaves(t, pc) == th[t].pc = pc /\ th'[t].pc # pc

\* C1: GetToken answers "not found" only when the cache holds no entry for the
\* user at the moment it reads the cache; a cached record is returned as it
\* is; and a Redis read that is skipped (flag untrusted) or fails (Redis
\* unreachable, or no key) always falls back to the cache, so no Redis
\* failure reaches the caller.
C1_GetStep ==
    \A t \in Threads :
        /\ Leaves(t, "get_cache") =>
              IF cache[th[t].usr] = NoToken
              THEN th'[t].err = "notfound" /\ th'[t].tok = NoToken
              ELSE th'[t].err = "" /\ th'[t].tok = cache[th[t].usr]
        /\ Leaves(t, "get_redis") /\ (~status \/ ~redisUp \/ durable[th[t].usr] = NoToken)
              => th'[t].pc = "get_cache"
        /\ Leaves(t, "get_redis") \/ Leaves(t, "get_update") \/ Leaves(t, "get_cache")
              => th'[t].err \in {"", "notfound"}

C1_NotFoundOnlyIfCacheEmpty == [][C1_GetStep]_vars

\* C1 witness: a GetToken found the flag trusted, its Redis read failed
\* because Redis is down, and it returned the record only the cache has.
C1_Witness ==
    \E t \in Threads :
        /\ th[t].op = "GetToken" /\ th[t].pc = "done" /\ th[t].dur
        /\ ~redisUp /\ durable[th[t].usr] = NoToken
        /\ th[t].err = "" /\ th[t].tok # NoToken /\ th[t].tok = cache[th[t].usr]


\* C2: SaveToken returns nil whatever the health flag and the Redis outcome;
\* its first step writes the record into the cache and touches no Redis key;
\* its second step calls Redis exactly when the flag is trusted; and while
\* Redis is down, a GetToken that follows a returned SaveToken(U, R), with no
\* other operation on U in between, falls back to the cache and returns R.
C2_SaveStep ==
    \A t \in Threads :
        /\ Leaves(t, "save_cache") =>
              /\ cache'[th[t].usr] = th[t].tok
              /\ durable' = durable
              /\ th'[t].pc = "save_redis"
        /\ Leaves(t, "save_redis") =>
              /\ th'[t].err = ""
              /\ th'[t].dur = status
              /\ ~status => durable' = durable
              /\ status /\ redisUp => durable'[th[t].usr] = th[t].tok
        /\ Leaves(t, "get_redis") /\ quiet[th[t].usr] => th'[t].pc = "get_cache"
        /\ Leaves(t, "get_cache") /\ quiet[th[t].usr] =>
              th'[t].err = "" /\ th'[t].tok = pending[th[t].usr]

C2_SaveAlwaysSucceedsCacheFirst == [][C2_SaveStep]_vars

\* C2 witness: with Redis down and the flag still trusted, a SaveToken has
\* returned and the GetToken after it returned the saved record.
C2_Witness ==
    \E t \in Threads :
        /\ th[t].op = "GetToken" /\ th[t].pc = "done" /\ th[t].dur
        /\ quiet[th[t].usr] /\ ~redisUp
        /\ th[t].err = "" /\ th[t].tok = pending[th[t].usr]
        /\ durable[th[t].usr] # NoToken /\ durable[th[t].usr] # th[t].tok

\* C7: reconciliation convergence.  When a replication pass that found the
\* flag trusted has saved every entry of its snapshot without error, every
\* user who at the tick had a record saved to the cache only (and no save or
\* delete since) has that record in Redis.  (The pass is the first tick of
\* the 5-minute ticker after the flag turned trusted, or a later one.)
C7_ReconciliationDeliversPendingSaves ==
    (repl.active /\ repl.ok /\ \A u \in Keys : repl.todo[u] = NoToken)
        => \A u \in repl.owed : pending[u] = NoToken \/ durable[u] = pending[u]

\* A thread inside RefreshToken, called directly or from GetValidToken.
Refreshing(t) == th[t].op \in {"refresh", "getvalid"} /\ th[t].resp # NoResp

\* C3: GetValidToken never hands out a record closer than the 5-minute
\* margin to its expiry.  A loaded record outside the margin is returned as it
\* is; a loaded record inside the margin sends the call into RefreshToken; and
\* the record the refresh grant yields, which is the one GetValidToken then
\* returns, is outside the margin at the instant it is stamped, whatever
\* expires_in the upstream answered.
C3_GetValidStep ==
    \A t \in Threads :
        th[t].op = "getvalid" =>
            /\ Leaves(t, "gv_check") /\ th'[t].pc = "done" /\ th'[t].err = "" =>
                  th'[t].tok.expiresAt - now >= RefreshMargin
            /\ Leaves(t, "gv_check") /\ th[t].err = ""
                  /\ th[t].tok.expiresAt - now < RefreshMargin =>
                  th'[t].pc = "get_redis" /\ th'[t].ret = "rf_grant"
            /\ Leaves(t, "rf_grant") /\ th'[t].pc = "save_cache" =>
                  th'[t].tok.expiresAt - now >= RefreshMargin

C3_ValidTokenOutsideMargin == [][C3_GetValidStep]_vars

\* C4: a successful RefreshToken stores and returns a record whose RealmID is
\* that of the record it loaded: the grant step builds the new token with the
\* loaded token's realm whatever realm the response carries, SaveToken puts
\* that token into the cache, and the call returns it without error.
C4_RefreshStep ==
    \A t \in Threads :
        /\ th[t].op \in {"refresh", "getvalid"}
              /\ Leaves(t, "rf_grant") /\ th'[t].pc = "save_cache" =>
              /\ th'[t].old = th[t].tok
              /\ th'[t].tok.realm = th[t].tok.realm
        /\ Refreshing(t) /\ Leaves(t, "save_cache") =>
              /\ cache'[th[t].usr].realm = th[t].old.realm
              /\ cache'[th[t].usr].access = th[t].resp.access
        /\ Refreshing(t) /\ Leaves(t, "save_redis") =>
              /\ th'[t].pc = "done" /\ th'[t].err = ""
              /\ th'[t].tok.realm = th[t].old.realm
              /\ th'[t].tok.access = th[t].resp.access

C4_RefreshKeepsRealm == [][C4_RefreshStep]_vars

\* C4 witness: a refresh whose response named another realm has returned
\* the new access token under the loaded record's realm, and the cache holds it.
C4_Witness ==
    \E t \in Threads :
        /\ th[t].op = "refresh" /\ th[t].pc = "done" /\ th[t].err = ""
        /\ th[t].old.realm = "r1" /\ th[t].resp.realm = "r2"
        /\ th[t].tok.realm = "r1" /\ th[t].tok.access # th[t].old.access
        /\ cache[th[t].usr] = th[t].tok

\* The refresh token RefreshToken must end up with: the response's when it
\* carries one, the loaded record's otherwise.
ExpectedRefresh(old, resp) == IF resp.refresh # 0 THEN resp.refresh ELSE old.refresh

\* C5: after a successful RefreshToken the stored and returned record carries
\* the response's refresh token when the response has a non-empty one, and
\* the loaded record's refresh token when the response has none.
C5_RefreshStep ==
    \A t \in Threads :
        /\ th[t].op \in {"refresh", "getvalid"}
              /\ Leaves(t, "rf_grant") /\ th'[t].pc = "save_cache" =>
              th'[t].tok.refresh = ExpectedRefresh(th[t].tok, th'[t].resp)
        /\ Refreshing(t) /\ Leaves(t, "save_cache") =>
              cache'[th[t].usr].refresh = ExpectedRefresh(th[t].old, th[t].resp)
        /\ Refreshing(t) /\ Leaves(t, "save_redis") =>
              /\ th'[t].pc = "done" /\ th'[t].err = ""
              /\ th'[t].tok.refresh = ExpectedRefresh(th[t].old, th[t].resp)

C5_RefreshTokenKeptOrReplaced == [][C5_RefreshStep]_vars

\* C5 witness: a refresh whose response carried no refresh token has
\* returned; the stored record has the new access token and the old refresh
\* token.
C5_Witness ==
    \E t \in Threads :
        /\ th[t].op = "refresh" /\ th[t].pc = "done" /\ th[t].err = ""
        /\ th[t].resp.refresh = 0 /\ th[t].old.refresh # 0
        /\ cache[th[t].usr].refresh = th[t].old.refresh
        /\ cache[th[t].usr].access = th[t].resp.access
        /\ cache[th[t].usr].access # th[t].old.access

\* C8: no record with an empty RealmID is ever held by the store: every cache
\* entry and every Redis key carries a non-empty realm, also between the code
\* exchange and the handler's realm binding, and also when the callback
\* carried no realmId.
C8_NoUnboundRecordStored ==
    \A u \in Users :
        /\ cache[u] # NoToken => cache[u].realm # ""
        /\ durable[u] # NoToken => durable[u].realm # ""

\* C9: a callback that supplies a non-empty realmId T and whose exchange
\* succeeded goes on to bind the realm: the handler sets RealmID = T on the
\* exchanged token (whose realm is the response's, normally empty) and saves
\* it again; that second
\* SaveToken writes a record with realm T and the exchanged access token into
\* the cache, writes the same record to Redis when its Redis call goes
\* through, and the handler completes without error.
C9_CallbackStep ==
    \A t \in Threads :
        th[t].op = "callback" /\ th[t].arg # "" =>
            /\ Leaves(t, "cb_exchange") /\ th'[t].err = "" =>
                  th'[t].tok.realm = th'[t].resp.realm /\ th'[t].ret = "cb_bind"
            /\ Leaves(t, "cb_bind") =>
                  /\ th'[t].pc = "save_cache" /\ th'[t].ret = "done"
                  /\ th'[t].tok = [th[t].tok EXCEPT !.realm = th[t].arg]
            /\ Leaves(t, "save_cache") /\ th[t].ret = "done" =>
                  /\ cache'[th[t].usr].realm = th[t].arg
                  /\ cache'[th[t].usr].access = th[t].resp.access
            /\ Leaves(t, "save_redis") /\ th[t].ret = "done" =>
                  /\ th'[t].pc = "done" /\ th'[t].err = ""
                  /\ th'[t].tok.realm = th[t].arg
                  /\ status /\ redisUp => durable'[th[t].usr] = th'[t].tok

C9_CallbackBindsRealm == [][C9_CallbackStep]_vars

\* C9 witness: a callback with realmId "r1" has completed; the cache holds
\* the exchanged token under realm "r1".
C9_Witness ==
    \E t \in Threads :
        /\ th[t].op = "callback" /\ th[t].pc = "done" /\ th[t].err = ""
        /\ th[t].arg = "r1" /\ th[t].resp.realm = ""
        /\ cache[th[t].usr].realm = "r1"
        /\ cache[th[t].usr].access = th[t].resp.access

\* The result of a GetToken that runs alone against cache c and Redis keys d.
GetTokenResult(c, d, healthy, up, u) ==
    LET out == IF healthy THEN RedisGetToken(d, up, u) ELSE [err |-> "skipped", tok |-> NoToken]
    IN IF AfterDurableRead(healthy, out.err) = "get_update" THEN [err |-> "", tok |-> out.tok]
       ELSE CacheLookup(c, u)

\* C10: when a revocation call of Disconnect fails, on the access token or on
\* the refresh token, Disconnect ends there with an error: the step changes
\* neither the cache nor Redis, DeleteToken is not entered, and a get of the
\* user at that moment finds what it would have found before; a Disconnect
\* enters DeleteToken only from a refresh-token revocation that succeeded.
C10_DisconnectStep ==
    \A t \in Threads :
        th[t].op = "disconnect" =>
            /\ (Leaves(t, "dc_revoke_access") \/ Leaves(t, "dc_revoke_refresh"))
                  /\ th'[t].err # "" =>
                  /\ th'[t].pc = "done"
                  /\ cache' = cache /\ durable' = durable
                  /\ GetTokenResult(cache', durable', status', redisUp', th[t].usr)
                        = GetTokenResult(cache, durable, status, redisUp, th[t].usr)
            /\ th'[t].pc = "delete_cache" /\ th[t].pc # "delete_cache" =>
                  th[t].pc = "dc_revoke_refresh" /\ th[t].err = "" /\ th'[t].err = ""
            /\ th'[t].pc = "done" /\ th[t].pc # "done" /\ th'[t].err = "" =>
                  th[t].pc = "delete_redis"

C10_FailedRevocationKeepsRecord == [][C10_DisconnectStep]_vars

\* C10 witness: a Disconnect has ended with the error of a failed revocation,
\* and the record it loaded is still the cache entry and still found by a get.
C10_Witness ==
    \E t \in Threads :
        /\ th[t].op = "disconnect" /\ th[t].pc = "done" /\ th[t].err = "upstream"
        /\ th[t].tok # NoToken /\ cache[th[t].usr] = th[t].tok
        /\ GetTokenResult(cache, durable, status, redisUp, th[t].usr).err = ""

\* The cool-down that follows the latest trip is still running.
CoolingDown == hc.tripAt >= 0 /\ now <= hc.tripAt + BreakerTimeout

\* C6: with a 30 s probe interval and a 30 s breaker timeout, once three
\* pings in a row have failed IsHealthy is false (already when the third
\* returns, so within one probe interval) and it stays false, with no ping
\* sent, for the whole cool-down, also when Redis is reachable again; the
\* first ping sent after a trip is sent after the cool-down, in the half-open
\* state, and a ping that succeeds closes the breaker and sets the flag true.
C6_HealthStep ==
    /\ hc'.streak >= TripThreshold => ~status'
    /\ CoolingDown' => ~status' /\ hc'.pc = "wait"
    /\ hc.pc = "wait" /\ hc'.pc = "probing" /\ hc.streak >= TripThreshold =>
          cb'.state = "half-open" /\ now > hc.tripAt + BreakerTimeout
    /\ hc.pc = "probing" /\ hc'.pc = "wait" /\ redisUp =>
          status' /\ cb'.state = "closed"

C6_CoolDownThenHalfOpenTrial == [][C6_HealthStep]_vars

\* C6 witness: the breaker tripped, Redis came back during the cool-down,
\* and the half-open trial, the first ping after the cool-down, succeeded:
\* the flag is true again little more than two probe intervals after the trip.
C6_Witness ==
    /\ hc.tripAt >= 0 /\ hc.streak = 0 /\ hc.pc = "wait"
    /\ status /\ cb.state = "closed"
    /\ now > hc.tripAt + BreakerTimeout
    /\ now <= hc.tripAt + 2 * CheckInterval + MaxJitter + ProbeDeadline

\* What a Disconnect in thread state r has sent upstream, by where it is.
DisconnectOrder(r) ==
    /\ r.pc \in {"get_redis", "get_update", "get_cache", "dc_revoke_access"} =>
          r.calls = <<>>
    /\ r.pc = "dc_revoke_refresh" =>
          r.calls = <<"revoke_access">> /\ r.tok # NoToken /\ r.err = ""
    /\ r.pc \in {"delete_cache", "delete_redis"} =>
          r.calls = <<"revoke_access", "revoke_refresh">>
    /\ r.pc = "done" =>
          \/ r.err = "" /\ r.calls = <<"revoke_access", "revoke_refresh">>
          \/ r.err = "notfound" /\ r.calls = <<>>
          \/ r.err = "upstream" /\ r.calls = <<"revoke_access_failed">>
          \/ r.err = "upstream" /\ r.calls = <<"revoke_access", "revoke_refresh_failed">>

\* C11: Disconnect runs load, revoke access token, revoke refresh token,
\* delete, in that order: it is inside DeleteToken only after both
\* revocations succeeded, it has sent the refresh-token revocation only after
\* the access-token revocation succeeded (never after it failed), and when
\* GetToken found no record it has sent no revocation at all.
C11_DisconnectOrder ==
    \A t \in Threads : th[t].op = "disconnect" => DisconnectOrder(th[t])

\* C11 witness: a Disconnect has completed without error after both
\* revocations, and the record is gone from the cache and from Redis.
C11_Witness ==
    \E t \in Threads :
        /\ th[t].op = "disconnect" /\ th[t].pc = "done" /\ th[t].err = ""
        /\ th[t].calls = <<"revoke_access", "revoke_refresh">>
        /\ th[t].dur /\ cache[th[t].usr] = NoToken /\ durable[th[t].usr] = NoToken

\* C15: RefreshToken whose GetToken found no record ends with that not-found
\* error without calling the upstream; RefreshToken whose grant the upstream
\* rejects ends with the upstream error without calling SaveToken, the step
\* leaving the cache and Redis as they were; in both cases no token is
\* returned, and GetValidToken ends with the same error and no token, also
\* when it holds the old record it loaded.
C15_RefreshFailureStep ==
    \A t \in Threads :
        th[t].op \in {"refresh", "getvalid"} =>
            /\ Leaves(t, "rf_grant") /\ th[t].err # "" =>
                  /\ th[t].err = "notfound"
                  /\ th'[t].pc = "done" /\ th'[t].err = "notfound"
                  /\ th'[t].tok = NoToken /\ th'[t].calls = <<>>
                  /\ issued' = issued /\ cache' = cache /\ durable' = durable
            /\ Leaves(t, "rf_grant") /\ th[t].err = "" /\ th'[t].err # "" =>
                  /\ th'[t].pc = "done" /\ th'[t].err = "upstream"
                  /\ th'[t].tok = NoToken
                  /\ th'[t].calls = <<"refresh_grant_rejected">>
                  /\ cache' = cache /\ durable' = durable
            /\ Leaves(t, "gv_check") /\ th[t].err # "" =>
                  /\ th[t].err = "notfound"
                  /\ th'[t].pc = "done" /\ th'[t].err = "notfound"
                  /\ th'[t].tok = NoToken /\ th'[t].calls = <<>>
            /\ th'[t].pc = "done" /\ th[t].pc # "done" /\ th'[t].err # "" =>
                  th'[t].tok = NoToken /\ th[t].pc \in {"rf_grant", "gv_check"}
            /\ Leaves(t, "save_cache") => th[t].calls = <<"refresh_grant">>

C15_RefreshFailuresPropagate == [][C15_RefreshFailureStep]_vars

\* C15 witness: a GetValidToken that loaded a record inside the margin had
\* its refresh grant rejected: it ended with the upstream error and no token,
\* and the cache still holds the record it loaded.
C15_Witness ==
    \E t \in Threads :
        /\ th[t].op = "getvalid" /\ th[t].pc = "done" /\ th[t].err = "upstream"
        /\ th[t].calls = <<"refresh_grant_rejected">> /\ th[t].tok = NoToken
        /\ th[t].old # NoToken /\ cache[th[t].usr] = th[t].old

\* C12: a GetToken that finds the flag trusted and whose Redis read succeeds
\* returns the Redis record and makes it the cache entry, whatever the cache
\* held; a GetToken that finds the flag untrusted makes no Redis call and
\* goes to the cache.
C12_GetStep ==
    \A t \in Threads :
        /\ Leaves(t, "get_redis") /\ status /\ redisUp /\ durable[th[t].usr] # NoToken =>
              /\ th'[t].pc = "get_update" /\ th'[t].dur
              /\ th'[t].tok = durable[th[t].usr]
        /\ Leaves(t, "get_update") =>
              /\ cache'[th[t].usr] = th[t].tok
              /\ th'[t].tok = th[t].tok /\ th'[t].err = ""
              /\ th'[t].pc = th[t].ret
        /\ Leaves(t, "get_redis") /\ ~status =>
              /\ th'[t].pc = "get_cache" /\ ~th'[t].dur
              /\ durable' = durable

C12_DurableReadWinsAndRefreshesCache == [][C12_GetStep]_vars

\* C12 witness: a GetToken returned the Redis record and the cache now holds
\* it, although the last save of the user had put a different record into
\* the cache.
C12_Witness ==
    \E t \in Threads :
        /\ th[t].op = "GetToken" /\ th[t].pc = "done" /\ th[t].dur /\ th[t].err = ""
        /\ th[t].tok = durable[th[t].usr] /\ cache[th[t].usr] = th[t].tok
        /\ pending[th[t].usr] # NoToken /\ pending[th[t].usr] # th[t].tok

\* C13: DeleteToken removes the user's cache entry whatever the health flag
\* says and touches no Redis key in that step; it then calls Redis DEL
\* exactly when the flag is trusted at that moment; and it returns nil
\* whether the DEL was skipped, succeeded or failed.
C13_DeleteStep ==
    \A t \in Threads :
        /\ Leaves(t, "delete_cache") =>
              /\ cache'[th[t].usr] = NoToken
              /\ durable' = durable
              /\ th'[t].pc = "delete_redis"
        /\ Leaves(t, "delete_redis") =>
              /\ th'[t].err = "" /\ th'[t].pc = th[t].ret
              /\ th'[t].dur = status
              /\ ~status \/ ~redisUp => durable' = durable
              /\ status /\ redisUp => durable'[th[t].usr] = NoToken
              /\ cache' = cache

C13_DeleteAlwaysSucceeds == [][C13_DeleteStep]_vars

\* C13 witness: a DeleteToken found the flag trusted and its Redis DEL failed
\* because Redis is down: it has returned nil, the cache entry is gone and
\* the Redis key is still there.
C13_Witness ==
    \E t \in Threads :
        /\ th[t].op = "DeleteToken" /\ th[t].pc = "done" /\ th[t].err = ""
        /\ th[t].dur /\ ~redisUp
        /\ cache[th[t].usr] = NoToken /\ durable[th[t].usr] # NoToken

\* C14: freshness of reads while Redis is reachable and trusted: once a
\* SaveToken(U, R_new) has completed, with R_new written to the cache and to
\* Redis, a GetToken(U) that starts later returns R_new and nothing older, as
\* long as Redis stays reachable and trusted and no other save or delete of U
\* is issued, whatever the replication routine does in between.
C14_GetStep ==
    \A t \in Threads :
        (Leaves(t, "get_update") \/ Leaves(t, "get_cache"))
            /\ hist[th[t].usr].latest # NoToken
            => th'[t].err = "" /\ th'[t].tok = hist[th[t].usr].latest

C14_NoReadOlderThanCompletedSave == [][C14_GetStep]_vars

\* A ping returns in this step; the health check goroutine receives a tick in
\* this step.
PingReturns == hc.pc = "probing" /\ hc'.pc = "wait"
TickReceived == hc.pc = "wait" /\ hc'.next # hc.next

\* C17: the breaker leaves the closed state exactly when the third ping in
\* a row fails: a closed breaker's failure count is the number of pings that
\* failed in a row, below 3; a ping that returns to a closed breaker opens it
\* if and only if it is the third failure in a row; a success leaves it closed
\* with the count at 0; and while closed the flag is the outcome of the
\* latest ping that returned.
C17_ClosedStep ==
    /\ cb'.state = "closed" =>
          /\ cb'.fails = hc'.streak /\ hc'.streak < TripThreshold
          /\ hc'.last # "none" => (status' <=> hc'.last = "ok")
    /\ cb.state = "closed" /\ cb'.state # "closed" =>
          PingReturns /\ ~redisUp /\ cb'.state = "open" /\ hc'.streak = TripThreshold
    /\ cb.state = "closed" /\ PingReturns =>
          /\ (cb'.state = "open" <=> (~redisUp /\ hc.streak = TripThreshold - 1))
          /\ redisUp => cb'.state = "closed" /\ cb'.fails = 0 /\ status'
          /\ ~redisUp => ~status'

C17_OpensAtThirdConsecutiveFailure == [][C17_ClosedStep]_vars

\* C17 witness: four pings have returned to the closed breaker, the last two
\* of them failures after a success: the breaker is still closed with a count
\* of 2 and the flag is false.
C17_Witness ==
    /\ cb.state = "closed" /\ hc.pc = "wait" /\ cb.requests = 4
    /\ cb.fails = 2 /\ hc.streak = 2 /\ hc.tripAt = -1
    /\ hc.last = "fail" /\ ~status

\* C18: while the breaker is open the flag is false and no ping is in flight;
\* a health check that runs while the breaker is open and its expiry (the
\* trip plus 30 s) has not passed sends no ping, leaves the breaker as it is
\* and sets the flag false again.
C18_OpenStep ==
    /\ cb'.state = "open" => ~status' /\ hc'.pc = "wait"
    /\ TickReceived /\ cb.state = "open" /\ now <= cb.expiry =>
          hc'.pc = "wait" /\ cb' = cb /\ ~status'
    /\ cb.state = "open" => cb.expiry = hc.tripAt + BreakerTimeout

C18_OpenMeansUnhealthyAndNoPing == [][C18_OpenStep]_vars

\* C18 witness: Redis is reachable again, a tick has been received since the
\* trip and inside the cool-down, and the breaker is still open with the
\* flag false.
C18_Witness ==
    /\ cb.state = "open" /\ redisUp /\ ~status /\ hc.pc = "wait"
    /\ hc.next - CheckInterval > hc.tripAt
    /\ now <= cb.expiry

\* C19: an open breaker becomes half-open only in a health check that runs
\* after its expiry, and that check sends the one trial ping; a half-open
\* breaker has exactly that one request admitted and would reject another;
\* when the trial succeeds the breaker is closed and the flag true; when it
\* fails the breaker is open again with a fresh 30 s expiry and the flag is
\* false, this one failure being enough.
C19_HalfOpenStep ==
    /\ cb.state = "open" /\ cb'.state # "open" =>
          /\ TickReceived /\ now > cb.expiry
          /\ cb'.state = "half-open" /\ cb'.requests = 1 /\ hc'.pc = "probing"
    /\ cb'.state = "half-open" =>
          hc'.pc = "probing" /\ cb'.requests = 1 /\ ~Admits(cb') /\ ~status'
    /\ cb.state = "half-open" /\ cb'.state # "half-open" => PingReturns
    /\ cb.state = "half-open" /\ PingReturns /\ redisUp =>
          cb' = BreakerClosed /\ status'
    /\ cb.state = "half-open" /\ PingReturns /\ ~redisUp =>
          /\ cb'.state = "open" /\ cb'.expiry = now + BreakerTimeout
          /\ ~status'

C19_HalfOpenTrialDecides == [][C19_HalfOpenStep]_vars

\* C19 witness: the half-open trial has just failed: the breaker is open
\* again with an expiry 30 s from now, after four failures in a row.
C19_Witness ==
    /\ cb.state = "open" /\ hc.pc = "wait" /\ ~status
    /\ hc.streak = TripThreshold + 1 /\ hc.tripAt = now
    /\ cb.expiry = now + BreakerTimeout

\* A request goroutine, or the replication goroutine, with a Redis call in
\* flight; a goroutine between taking a cacheMutex lock and releasing it.
CallInFlight(g) ==
    IF g = Replicator THEN lk.repl = "push"
    ELSE th[g].pc \in {"sv_io", "gt_io", "dl_io"}

InsideCacheLock(g) ==
    IF g = Replicator THEN lk.repl = "snap_rlocked"
    ELSE th[g].pc \in {"sv_locked", "dl_locked", "gt_locked", "gt_rlocked"}

\* C20: no goroutine holds cacheMutex, as writer or as reader, while one of
\* its Redis calls (GET, SET, DEL, or a replication SET) is in flight: the lock
\* is held only at the program points of the map accesses, each of which
\* releases it in its next step without waiting for anything, so a Redis call
\* that never returns leaves the cache lock free for every other caller.
C20_NoCacheLockAcrossRedisCall ==
    \A g \in Threads \cup {Replicator} :
        /\ CallInFlight(g) => ~Holds(lk.cacheMutex, g)
        /\ Holds(lk.cacheMutex, g) <=> InsideCacheLock(g)

\* A SET is in flight on one thread while the other is inside the write lock.
C20_Witness ==
    \E t, o \in Threads :
        /\ t # o
        /\ th[t].pc = "sv_io"
        /\ ~redisUp
        /\ th[o].pc \in {"sv_locked", "dl_locked"}
        /\ lk.cacheMutex.writer = o

\* A step of an IsHealthy call by thread t.
C16_IsHealthyStep(t) ==
    /\ th[t].pc \in {"h_rlock", "h_rlocked"}
    /\ th'[t] # th[t]

\* C16: IsHealthy never pings and never waits for a ping.  Its steps leave
\* the breaker and the health check goroutine where they were and change
\* nothing but the read lock; while the checker's PING is in flight the
\* checker does not hold h.mu and nobody holds it as writer, so a reader can
\* take it; the checker holds h.mu only at the assignment of the flag.
C16_IsHealthyNeverWaitsForProbe ==
    [][/\ \A t \in Threads :
              C16_IsHealthyStep(t) =>
                  /\ cb' = cb /\ status' = status
                  /\ lk'.check = lk.check /\ lk'.result = lk.result
                  /\ lk'.cacheMutex = lk.cacheMutex
       /\ lk.check = "ping" => ~Holds(lk.mu, Checker) /\ CanRLock(lk.mu)
       /\ Holds(lk.mu, Checker) <=> lk.check = "c_locked"
       /\ lk.mu.writer \in {0, Checker}]_vars

\* A PING is in flight against a Redis that is down, and a SaveToken took
\* the read lock of the flag during it.
C16_Witness ==
    /\ lk.check = "ping"
    /\ ~redisUp
    /\ \E t \in Threads : th[t].pc = "h_rlocked" /\ t \in lk.mu.readers

\* C27: a GetToken takes cacheMutex only as a reader, whatever the flag says
\* and however the Redis read ends, so two GetToken calls never exclude one
\* another on the cache.
C27_GetTakesOnlySharedLock ==
    \A t \in Threads :
        th[t].op = "GetToken" => lk.cacheMutex.writer # t

\* No probe has completed since NewHealthChecker.
BeforeFirstProbe == hc.last = "none"

\* C28: the flag is false from NewHealthChecker until the first probe
\* completes, and the first probe is not sent before one full check interval
\* has passed; in that window no store call reaches Redis, reachable or not:
\* a step of SaveToken, GetToken or DeleteToken leaves the Redis keys as they
\* are and a GetToken skips the Redis read, goes to the cache and leaves it
\* as it is.
C28_ColdStartUsesCacheOnly ==
    [][/\ BeforeFirstProbe => ~status
       /\ now < CheckInterval => BeforeFirstProbe /\ hc.pc = "wait"
       /\ BeforeFirstProbe => durable' = durable
       /\ BeforeFirstProbe /\ Leaves(1, "get_redis") =>
              th'[1].pc = "get_cache" /\ ~th'[1].dur
       /\ BeforeFirstProbe /\ th[1].op = "GetToken" /\ th'[1] # th[1] =>
              cache' = cache]_vars

\* Before the first probe, with Redis reachable, a SaveToken has returned:
\* the record is in the cache and not in Redis.
C28_Witness ==
    /\ BeforeFirstProbe
    /\ redisUp
    /\ th[1].op = "SaveToken" /\ th[1].pc = "done"
    /\ cache[th[1].usr] = th[1].tok
    /\ durable[th[1].usr] = NoToken

\* A step of the replication goroutine that starts a pass, saves one entry
\* of its snapshot, or ends the pass.
C21_PassStarts == ~repl.active /\ repl'.active
C21_PassPushes(u) == repl.active /\ repl.todo[u] # NoToken /\ repl'.todo[u] = NoToken
C21_PassEnds == repl.active /\ ~repl'.active

\* C21: a pass starts only at a tick that finds the flag trusted, and outside
\* a pass the replication goroutine writes nothing; its snapshot is the whole
\* cache as it is at that moment; every entry of the snapshot gets its Redis
\* SET: the SET of an entry still to do can be issued whether or not an
\* earlier one failed, and the pass ends only when none is left; no step of
\* the pass changes the cache.
C21_PassPushesWholeSnapshot ==
    [][/\ C21_PassStarts =>
              /\ status
              /\ repl'.todo = cache
              /\ durable' = durable
       /\ \A u \in Keys :
              C21_PassPushes(u) =>
                  /\ redisUp => durable'[u] = Deref(repl.ref[u], repl.todo[u])
                  /\ \A o \in Keys \ {u} : repl'.todo[o] = repl.todo[o]
       /\ \A u \in Keys :
              repl.active /\ repl.todo[u] # NoToken => ENABLED Replicate_push(u)
       /\ C21_PassEnds => \A u \in Keys : repl.todo[u] = NoToken
       /\ (C21_PassStarts \/ C21_PassEnds \/ \E u \in Keys : C21_PassPushes(u)) =>
              cache' = cache]_vars

\* A pass over two entries has made both SETs: the first failed (Redis was
\* down), the second, after Redis came back, succeeded.
C21_Witness ==
    /\ repl.active /\ ~repl.ok
    /\ \A u \in Keys : repl.todo[u] = NoToken
    /\ \E u, o \in Keys :
          /\ u # o
          /\ cache[u] # NoToken /\ durable[u] = NoToken
          /\ cache[o] # NoToken /\ durable[o] = cache[o]
          /\ \A t \in Threads : th[t].op = "idle"

\* C22: once a DeleteToken(U) has returned and no SaveToken(U, _) follows,
\* Redis holds no record of U and every GetToken(U) that returns answers
\* "not found", whatever the flag and Redis did around the delete and
\* whatever a replication pass that copied the cache before it does after.
C22_GetStep ==
    \A t \in Threads :
        (Leaves(t, "get_update") \/ Leaves(t, "get_cache"))
            /\ hist[th[t].usr].gone
            => th'[t].tok = NoToken

C22_DeletedStaysDeleted ==
    [][/\ C22_GetStep
       /\ \A u \in Users : hist[u].gone => cache[u] = NoToken /\ durable[u] = NoToken]_vars

\* C23: once a SaveToken(U, R2) has returned and no later save or delete of
\* U is issued, the cache entry of U stays R2 and every GetToken(U) that
\* returns answers R2, whatever Redis holds for U and whatever a replication
\* pass that copied the cache before the save does after.
C23_GetStep ==
    \A t \in Threads :
        (Leaves(t, "get_update") \/ Leaves(t, "get_cache"))
            /\ hist[th[t].usr].saved # NoToken
            => th'[t].tok = hist[th[t].usr].saved

C23_NoLostWrite ==
    [][/\ C23_GetStep
       /\ \A u \in Users : hist[u].saved # NoToken => cache[u] = hist[u].saved]_vars

\* Thread t has loaded the user's record in RefreshToken and has not yet
\* sent its grant request.
C24_Loaded(t) == th[t].op = "refresh" /\ th[t].pc = "rf_grant" /\ th[t].err = ""

\* C24: nothing makes the refreshes of one user wait for one another.  A
\* RefreshToken that has loaded the record can have its grant accepted
\* whatever the other request goroutine is doing, also when that one has
\* loaded the same record or has its own new token in hand and not yet
\* saved; the grant presents the refresh token of the record it loaded; and
\* each SaveToken puts its token into the cache over whatever is there, so
\* the last save decides the stored record.
C24_ConcurrentRefreshNotExclusive ==
    [][\A t \in Threads :
          /\ C24_Loaded(t) /\ issued < MaxGrants =>
                 ENABLED (RefreshToken_grant(t) /\ issued' = issued + 1)
          /\ C24_Loaded(t) /\ Leaves(t, "rf_grant") /\ issued' # issued =>
                 /\ th'[t].old = th[t].tok
                 /\ th'[t].tok.access = issued'
          /\ th[t].op = "refresh" /\ Leaves(t, "save_cache") =>
                 cache'[th[t].usr] = th[t].tok]_vars

\* Both goroutines loaded the same record, both grants were accepted for
\* the same old refresh token, the first to be granted saved last and its
\* record is the one stored.
C24_Witness ==
    \E t, o \in Threads :
        /\ t # o
        /\ th[t].op = "refresh" /\ th[o].op = "refresh"
        /\ th[t].pc = "done" /\ th[o].pc = "done"
        /\ th[t].err = "" /\ th[o].err = ""
        /\ th[t].old = SeedToken /\ th[o].old = SeedToken
        /\ th[t].tok.access < th[o].tok.access
        /\ cache[th[t].usr] = th[t].tok
        /\ durable[th[t].usr] = th[t].tok

\* C25: under an upstream that rotates refresh tokens, whenever every
\* RefreshToken call has completed, the record stored for the user, the one
\* a GetToken would return, carries the refresh token of the upstream's
\* latest grant, which is the one the upstream still accepts.
C25_StoredRefreshTokenIsValid ==
    (\A t \in Threads : th[t].pc = "idle") =>
        \A u \in Users :
            GetTokenResult(cache, durable, status, redisUp, u).tok.refresh = ValidRefresh

\* A ping returns with an error in this step; a ping returns PONG.
C29_PingFails == PingReturns /\ ~status'
C29_PingSucceeds == PingReturns /\ status'

\* C29: as long as ticks keep arriving, either pings keep failing again and
\* again or the flag eventually becomes true and stays true, whatever state
\* the breaker was in; and either pings keep succeeding again and again or
\* the flag eventually becomes false and stays false.
C29_SelfHealing ==
    /\ ([]<><<C29_PingFails>>_vars) \/ <>[]status
    /\ ([]<><<C29_PingSucceeds>>_vars) \/ <>[]~status

\* Redis is back while the breaker is open and the flag false.
C29_Witness ==
    /\ cb.state = "open" /\ redisUp /\ ~status
    /\ hc.last = "fail"

\* A step in which the replication goroutine makes a Redis SET; a step in
\* which the health check goroutine enters Check.
C26_DurableWrite == \E u \in Keys : C21_PassPushes(u)
C26_Probe == TickReceived

\* C26: once the application context is cancelled, the replication loop
\* eventually returns and makes no further Redis write, and the health check
\* loop eventually makes no further probe.
C26_BackgroundTasksStop ==
    (<>lk.cancelled) =>
        /\ <>[](lk.repl = "stopped")
        /\ <>[][~C26_DurableWrite]_vars
        /\ <>[][~C26_Probe]_vars
\* C30: a callback goes on to the exchange only when its state parameter
\* equals the state the connect handler stored in the session and the clock
\* has not passed the state's expiry, the state is removed from the session
\* before the exchange, and no callback goes on to the exchange with a state
\* for which an earlier callback already did.
C30_Verified(t) == th[t].pc = "cb_verify" /\ th'[t].pc = "cb_exchange"

C30_Exchanges(t) == th[t].pc = "cb_exchange" /\ th'[t].pc # "cb_exchange"

C30_StateChecked ==
    \A t \in Threads :
       /\ C30_Verified(t) =>
             /\ web.param[t] # 0
             /\ web.param[t] = web.req[t].state
             /\ now <= web.req[t].expiry
             /\ web'.req[t] = NoSession /\ web'.set[t]
       /\ C30_Exchanges(t) => web.req[t] = NoSession /\ web.param[t] \in web.used

C30_StateUsedOnce == \A t \in Threads : C30_Verified(t) => web.param[t] \notin web.used

C30_StateProtocol == [][C30_StateChecked /\ C30_StateUsedOnce]_vars

====
